---- MODULE Spec2Model ----
(***************************************************************************)
(* Verification model of the Chemputer control software.                   *)
(*                                                                         *)
(*   SpecDispatch : the run controller and the instruction dispatcher      *)
(*                  (core/chempiler.py, tools/cmd_execution.py)            *)
(*   SpecActor    : one serial device actor, its worker and its callers    *)
(*                  (serial_labware.py, IKA_RV10.py)                       *)
(*   SpecVolume   : pump instructions on a rig and the volume bookkeeping  *)
(*                  (cmd_execution.py, pump_execution.py)                  *)
(*                                                                         *)
(* Volumes are counted in units of 0.5 mL.                                 *)
(***************************************************************************)
EXTENDS Integers, Sequences, FiniteSets, TLC

VARIABLES
    script,         \* the compiled instruction list, as handed to the run controller
    command_queue,  \* Chempiler.command_queue: the instructions not yet popped
    cmd,            \* the instruction execute() is working on (NoCmd when none)
    pc,             \* position of the dispatcher (main) thread
    join_idx,       \* position of the for loop of join_parallel_operations
    thread_pool,    \* Executioner.thread_pool: the threads of Parallel instructions
    task,           \* state of the thread created for instruction i
    dispatched      \* history: the instructions handed to execute(), in order

dvars == <<script, command_queue, cmd, pc, join_idx, thread_pool, task, dispatched>>

VARIABLES
    soft_fail,          \* SerialDevice.__soft_fail_for_testing
    dev_command_queue,  \* SerialDevice.command_queue
    reply_queue,        \* SerialDevice.reply_queue
    th,                 \* what each thread is doing with the device
    io,                 \* the threads inside send_message on the connection
    heating_on,         \* IKARV10.heating_on
    fault_flip          \* history: flips whenever an exception reaches the worker loop

avars == <<soft_fail, dev_command_queue, reply_queue, th, io, heating_on, fault_flip>>

VARIABLES
    vol,              \* graph.node[n]["current_volume"]
    associated_flask, \* graph.node[n]["associated_flask"] (None when absent)
    pump_cmd,         \* the pump instruction being executed (its opcode and arguments)
    todo,             \* the moves the instruction has still to start
    mv,               \* the move in progress: arguments and locals of move(), and (history) the cycles made
    mphase,           \* position inside the instruction
    ninstr,           \* number of pump instructions executed so far
    nsteps,           \* SEPARATE: withdrawals made by the sensor loop
    pre               \* history: vol when the move in progress was started

gvars == <<vol, associated_flask, pump_cmd, todo, mv, mphase, ninstr, nsteps, pre>>

VARIABLES
    brigade           \* move_multiple_valves on a chain of its own: capacities and locals

VARIABLES
    tcp,                 \* ChemputerDevice.tcp: the state of the connection of each device
    device_ready_flag,   \* ChemputerDevice.device_ready_flag
    tcp_response_thread, \* ChemputerDevice.tcp_response_thread: listening or ended
    executing,           \* the commands (by their step) the device has received and not yet answered DONE
    user                 \* the thread that drives the devices: its position in one pump cycle

pvars == <<tcp, device_ready_flag, tcp_response_thread, executing, user>>

VARIABLES
    variables,   \* ChASM_parser.variables: the global table of DEF name = value
    functions,   \* ChASM_parser.functions: name -> (arg_list, body)
    heap,        \* the instruction lists the parser has built, by object identity
    stack,       \* the blocks the parser has open: MAIN, DEF name(...), FOR(n)
    parsed,      \* the value of the script nonterminal: what parser.parse returns
    perr,        \* the exception that ended the parse, "-" while there is none
    calls,       \* history: the macro calls p_function has reduced
    loops,       \* history: the loops p_for_loop has reduced
    nparse,      \* the number of steps of the parser so far
    defs,        \* history: the value the script last gave each name it defines
    refs,        \* history: the names the instructions refer to, and what they got
    mains,       \* history: the MAIN blocks reduced, and their bodies in a row
    skipped,     \* history: t_error has skipped a character of the script
    returned     \* parser.parse has returned: Chempiler holds the command_queue

cvars == <<variables, functions, heap, stack, parsed, perr, calls, loops, nparse,
           defs, refs, mains, skipped, returned>>

VARIABLES
    crash_dump,  \* the file CRASH_DUMP: whether it exists, and the mapping in it
    dumped,      \* history: the current volumes of the graph when the file was written
    rebuilt      \* the graph of a restart with crash_dump: loaded, then rebuild_graph
                 \* (and, as history, the volumes the snapshot it read was written from)

svars == <<crash_dump, dumped, rebuilt>>

VARIABLES
    wait         \* one call of wait_for_temp: the executor, the setpoint, the value
                 \* polled last, the place in the function, the polls so far

VARIABLES
    conn         \* one device and the calls made on it: the call made last, what it
                 \* wrote to the connection, whether it raised, the calls so far

VARIABLES
    rig,         \* a rig given to setup_special_devices: its edges, the references
                 \* the setup has made, the path computed last
    found,       \* setup_serial_devices: the declarations of the nodes, found_devices,
                 \* the objects made, the connections opened
    race         \* two threads inside update_node_volumes on one graph

xvars == <<wait, conn, rig, found, race>>

vars == <<dvars, avars, gvars, brigade, pvars, cvars, svars, xvars>>

\* the variables the dispatcher does not touch
nondvars == <<avars, gvars, brigade, pvars, cvars, svars, xvars>>

\* the variables a device actor does not touch
nonavars == <<dvars, gvars, brigade, pvars, cvars, svars, xvars>>

\* the variables the pump executor does not touch
nongvars == <<dvars, avars, brigade, pvars, cvars, svars, xvars>>

(***************************************************************************)
(* Bounds                                                                  *)
(***************************************************************************)
MaxScriptLen == 3

\* pump instructions executed in one run of SpecVolume
MaxInstr == 2

\* withdrawals the sensor loop of SEPARATE makes before the phase changes
MaxSepSteps == 2

MaxChain == 3

MaxCapacity == 3

MaxBrigadeVolume == 7

(***************************************************************************)
(* tools/constants.py                                                      *)
(***************************************************************************)
PARALLEL == "P"

SEQUENTIAL == "S"

WAIT == {"WAIT"}

PUMP_CMDS == {"MOVE", "HOME", "SEPARATE", "PRIME", "CLEAN", "SWITCH_VACUUM", "SWITCH_CARTRIDGE", "SWITCH_COLUMN"}

STIR_CMDS == {"START_STIR", "START_HEAT", "STOP_HEAT", "STOP_STIR", "SET_TEMP", "SET_STIR_RPM", "STIRRER_WAIT_FOR_TEMP"}

ROTAVAP_CMDS == {"START_HEATER_BATH", "STOP_HEATER_BATH", "START_ROTATION", "STOP_ROTATION", "LIFT_ARM_UP", "LIFT_ARM_DOWN", "RESET_ROTAVAP", "SET_BATH_TEMP", "SET_ROTATION", "RV_WAIT_FOR_TEMP", "SET_INTERVAL"}

VACUUM_CMDS == {"INIT_VAC_PUMP", "GET_VAC_SP", "SET_VAC_SP", "START_VAC", "STOP_VAC", "VENT_VAC", "GET_VAC_STATUS", "GET_END_VAC_SP", "SET_END_VAC_SP", "GET_RUNTIME_SP", "SET_RUNTIME_SP", "SET_SPEED_SP"}

CHILLER_CMDS == {"START_CHILLER", "STOP_CHILLER", "SET_CHILLER", "CHILLER_WAIT_FOR_TEMP", "RAMP_CHILLER", "SWITCH_CHILLER"}

CAMERA_CMDS == {"SET_RECORDING_SPEED"}

BREAKPOINT_CMD == "BREAKPOINT"

(***************************************************************************)
(* Instructions.  An instruction is the list [mode, opcode, args...] the   *)
(* parser produces; idx is its position in the compiled list (history      *)
(* only), path tells whether nx.shortest_path finds a path for a MOVE, and *)
(* lookup whether the graph look-ups a MOVE makes before it succeed.       *)
(***************************************************************************)
\* one opcode of every family, and SET_COOLING_POWER, which no list contains
ScriptOpcodes == {"MOVE", "START_STIR", "WAIT", "START_ROTATION", "START_VAC", "START_CHILLER", "SET_RECORDING_SPEED", "BREAKPOINT", "SET_COOLING_POWER"}

Modes == {PARALLEL, SEQUENTIAL}

InstrBodies ==
    {r \in [mode : Modes, opcode : ScriptOpcodes, path : BOOLEAN, lookup : BOOLEAN] :
        /\ r.opcode # "MOVE" => (r.path /\ r.lookup)
        /\ r.path => r.lookup}

Scripts == UNION {[1..n -> InstrBodies] : n \in 0..MaxScriptLen}

Numbered(s) ==
    [i \in 1..Len(s) |->
        [idx |-> i, mode |-> s[i].mode, opcode |-> s[i].opcode, path |-> s[i].path, lookup |-> s[i].lookup]]

NoCmd == [idx |-> 0, mode |-> "-", opcode |-> "-", path |-> FALSE, lookup |-> FALSE]

TaskStates == {"unborn", "running", "done", "failed", "killed"}

Terminated == {"done", "failed"}

(***************************************************************************)
(* Executioner.execute: the routing of an opcode (lines 83-101)            *)
(***************************************************************************)
Family(op) ==
    IF op \in PUMP_CMDS THEN "pump"
    ELSE IF op \in STIR_CMDS THEN "stirrer"
    ELSE IF op \in WAIT THEN "wait"
    ELSE IF op \in ROTAVAP_CMDS THEN "rotavap"
    ELSE IF op \in VACUUM_CMDS THEN "vacuum"
    ELSE IF op \in CHILLER_CMDS THEN "chiller"
    ELSE IF op \in CAMERA_CMDS THEN "camera"
    ELSE IF op = BREAKPOINT_CMD THEN "breakpoint"
    ELSE "invalid"

\* the branches of the process_* functions: the executor operation behind
\* each opcode a branch names (the opcodes of a list are told apart by
\* "==" or by "in op"; no opcode of a list is part of an earlier one)
Branches ==
    [op \in PUMP_CMDS \cup STIR_CMDS \cup ROTAVAP_CMDS \cup VACUUM_CMDS \cup CHILLER_CMDS \cup {"SET_COOLING_POWER"} |->
        CASE op = "MOVE" -> "pump_executor.move"
          [] op = "HOME" -> "pump_executor.home"
          [] op = "SEPARATE" -> "pump_executor.separate_phases"
          [] op = "PRIME" -> "pump_executor.prime_tubes"
          [] op = "CLEAN" -> "pump_executor.clean_all"
          [] op = "SWITCH_VACUUM" -> "pump_executor.switch_vacuum"
          [] op = "SWITCH_CARTRIDGE" -> "pump_executor.switch_cartridge"
          [] op = "SWITCH_COLUMN" -> "pump_executor.switch_column_fraction"
          [] op = "START_STIR" -> "stirrer_executor.stir"
          [] op = "START_HEAT" -> "stirrer_executor.heat"
          [] op = "STOP_HEAT" -> "stirrer_executor.stop_heat"
          [] op = "STOP_STIR" -> "stirrer_executor.stop_stir"
          [] op = "SET_TEMP" -> "stirrer_executor.set_temp"
          [] op = "SET_STIR_RPM" -> "stirrer_executor.set_stir_rate"
          [] op = "STIRRER_WAIT_FOR_TEMP" -> "stirrer_executor.wait_for_temp"
          [] op = "START_HEATER_BATH" -> "rotavap_executor.start_heater"
          [] op = "STOP_HEATER_BATH" -> "rotavap_executor.stop_heater"
          [] op = "START_ROTATION" -> "rotavap_executor.start_rotation"
          [] op = "STOP_ROTATION" -> "rotavap_executor.stop_rotation"
          [] op = "LIFT_ARM_UP" -> "rotavap_executor.lift_up"
          [] op = "LIFT_ARM_DOWN" -> "rotavap_executor.lift_down"
          [] op = "RESET_ROTAVAP" -> "rotavap_executor.reset"
          [] op = "SET_BATH_TEMP" -> "rotavap_executor.set_temp"
          [] op = "SET_ROTATION" -> "rotavap_executor.set_rotation"
          [] op = "RV_WAIT_FOR_TEMP" -> "rotavap_executor.wait_for_temp"
          [] op = "SET_INTERVAL" -> "rotavap_executor.set_interval"
          [] op = "INIT_VAC_PUMP" -> "vacuum_executor.initialise"
          [] op = "GET_VAC_SP" -> "vacuum_executor.get_vacuum_set_point"
          [] op = "SET_VAC_SP" -> "vacuum_executor.set_vacuum_set_point"
          [] op = "START_VAC" -> "vacuum_executor.start_vacuum"
          [] op = "STOP_VAC" -> "vacuum_executor.stop_vacuum"
          [] op = "VENT_VAC" -> "vacuum_executor.vent_vacuum"
          [] op = "GET_VAC_STATUS" -> "vacuum_executor.get_status"
          [] op = "GET_END_VAC_SP" -> "vacuum_executor.get_end_vacuum_set_point"
          [] op = "SET_END_VAC_SP" -> "vacuum_executor.set_end_vacuum_set_point"
          [] op = "GET_RUNTIME_SP" -> "vacuum_executor.get_runtime_set_point"
          [] op = "SET_RUNTIME_SP" -> "vacuum_executor.set_runtime_set_point"
          [] op = "SET_SPEED_SP" -> "vacuum_executor.set_speed_set_point"
          [] op = "START_CHILLER" -> "chiller_executor.start_chiller"
          [] op = "STOP_CHILLER" -> "chiller_executor.stop_chiller"
          [] op = "SET_CHILLER" -> "chiller_executor.set_temp"
          [] op = "CHILLER_WAIT_FOR_TEMP" -> "chiller_executor.wait_for_temp"
          [] op = "RAMP_CHILLER" -> "chiller_executor.ramp_chiller"
          [] op = "SWITCH_CHILLER" -> "chiller_executor.switch_vessel"
          [] op = "SET_COOLING_POWER" -> "chiller_executor.cooling_power"]

\* the target of the thread that the Parallel branch of an opcode creates:
\* the operation the Sequential branch calls, but for HOME, whose thread is
\* given pump_executor.move (with the arguments of home: pump_name,
\* move_speed)
ThreadTarget ==
    [op \in DOMAIN Branches |-> IF op = "HOME" THEN "pump_executor.move" ELSE Branches[op]]

\* execute, then the process_* function of the family: the operation an
\* opcode reaches, "None" if execute() takes it for an invalid command
Operation(op) ==
    IF Family(op) \in {"pump", "stirrer", "rotavap", "vacuum", "chiller"} THEN Branches[op] ELSE "None"

\* the process_* functions that look at the mode and either call the
\* executor inline or create a thread for it
ThreadedFamilies == {"pump", "stirrer", "wait", "rotavap", "vacuum", "chiller"}

\* process_pump_cmd, MOVE: shortest_path raised, the error is logged and
\* the function returns before the mode is looked at (lines 154-158)
MoveAbandoned(c) == c.opcode = "MOVE" /\ c.lookup /\ ~c.path

\* process_pump_cmd, MOVE: graph.node[source] (volume "all") or
\* graph.predecessors(source)[0] (source equal to destination) raises for a
\* node the graph does not have; nothing catches it (lines 130-131, 147-149)
MoveRaises(c) == c.opcode = "MOVE" /\ ~c.lookup

\* TRUE when dispatching c in Parallel mode creates a thread
StartsThread(c) == Family(c.opcode) \in ThreadedFamilies /\ ~MoveAbandoned(c) /\ ~MoveRaises(c)

\* TRUE when dispatching c in Sequential mode calls an executor operation
\* inline (process_camera_cmds does so in either mode)
RunsInline(c) ==
    \/ Family(c.opcode) \in ThreadedFamilies /\ ~MoveAbandoned(c) /\ ~MoveRaises(c)
    \/ Family(c.opcode) = "camera"

NextCmd_last(q) == q[Len(q)]

\* Chempiler.run_platform: cmd = self.command_queue.pop(0)
NextCmd(q) == Head(q)

RestCmds(q) == Tail(q)

Joined_nowait(t) == TRUE

\* Thread.join() returns once the thread has terminated
Joined(t) == task[t] \in Terminated

PoolAppend_dropped(pool, t) == pool

\* self.thread_pool.append(thread)
PoolAppend(pool, t) == Append(pool, t)

Running == {t \in DOMAIN task : task[t] = "running"}

(***************************************************************************)
(* The rig: the graph setup_platform returns.  Two valves with one pump    *)
(* each form the backbone; a separator is a special device whose top is on *)
(* valve_1 and whose bottom flask is on valve_2.                           *)
(***************************************************************************)
None == "None"

EMPTY == 0

SEPARATION_DEFAULT_PRIMING_VOLUME == 4

SEPARATION_DEAD_VOLUME == 5

\* separate_phases: default of the step_size parameter (1 mL)
SeparationStepSize == 2

ValveNodes == {"valve_1", "valve_2"}

PumpNodes == {"pump_1", "pump_2"}

Vessels ==
    {"flask_a", "flask_b", "flask_separator_top", "flask_separator_bottom", "waste_1", "waste_2",
     "column", "collection_flask"}

VolumeNodes == Vessels \cup PumpNodes

\* graph.node[n]["class"]
Class ==
    [n \in VolumeNodes \cup ValveNodes |->
        IF n \in ValveNodes THEN "chemputer_valve"
        ELSE IF n \in PumpNodes THEN "chemputer_pump"
        ELSE IF n = "flask_separator_top" THEN "chemputer_separator"
        ELSE IF n \in {"waste_1", "waste_2"} THEN "chemputer_waste"
        ELSE IF n = "column" THEN "chemputer_column"
        ELSE IF n = "collection_flask" THEN "chemputer_collection_flask"
        ELSE "chemputer_flask"]

\* graph.predecessors(n)[0] of a vessel: the valve it hangs on
ParentValve ==
    [n \in Vessels |-> IF n \in {"flask_a", "flask_separator_top", "waste_1"} THEN "valve_1" ELSE "valve_2"]

\* the pump among the predecessors of a valve
PumpOf == [v \in ValveNodes |-> IF v = "valve_1" THEN "pump_1" ELSE "pump_2"]

\* graph.node[n]["max_volume"]
MaxVolume ==
    [n \in VolumeNodes |->
        IF n = "pump_1" THEN 4
        ELSE IF n = "pump_2" THEN 2
        ELSE IF n \in {"flask_separator_top", "flask_separator_bottom"} THEN 6
        ELSE 8]

\* graph.node[n]["current_volume"] as loaded
LoadedVolume ==
    [n \in VolumeNodes |->
        IF n = "flask_a" THEN 4
        ELSE IF n \in {"flask_separator_top", "flask_separator_bottom"} THEN 3
        ELSE 0]

\* graph.pred[flask][valve]["volume"]: the tube between a flask and its valve
TubeVolume == [n \in Vessels |-> 2]

\* setup_special_devices: graph.node[bottom]["parent_flask"]
ParentFlask == [n \in VolumeNodes |-> IF n = "flask_separator_bottom" THEN "flask_separator_top" ELSE None]

\* setup_special_devices: graph.node[top]["associated_flask"]
LoadedAssociatedFlask == [n \in VolumeNodes |-> IF n = "flask_separator_top" THEN "flask_separator_bottom" ELSE None]

\* nx.shortest_path(nx.Graph(graph), source, dest) on this rig, and the path
\* process_pump_cmd builds when source and destination are the same
ShortestPath(source, dest) ==
    IF ParentValve[source] = ParentValve[dest]
    THEN <<source, ParentValve[source], dest>>
    ELSE <<source, ParentValve[source], ParentValve[dest], dest>>

\* move(): valves_in_path = path[1:-1]
ValvesInPath(path) == SubSeq(path, 2, Len(path) - 1)

\* PumpExecutioner.get_current_node_volume
GetCurrentNodeVolume(g, a, node) ==
    IF Class[node] \in {"chemputer_filter", "chemputer_separator", "chemputer_rotavap"}
    THEN g[a[node]]
    ELSE g[node]

\* get_maximum_node_volume
GetMaximumNodeVolume(a, node) ==
    IF Class[node] \in {"chemputer_filter", "chemputer_separator", "chemputer_rotavap"}
    THEN MaxVolume[a[node]]
    ELSE MaxVolume[node]

\* move(): the warnings logged before the transfer
Warnings(g, a, source, dest, volume) ==
    (IF volume > GetCurrentNodeVolume(g, a, source) THEN {"withdraws"} ELSE {})
    \cup (IF volume > GetMaximumNodeVolume(a, dest) - GetCurrentNodeVolume(g, a, dest)
          THEN {"overfills"} ELSE {})

UpdateNodeVolumes_unclamped(g, a, source, target, volume) ==
    LET g1 == [g EXCEPT ![source] = g[source] - volume]
        g2 == IF ParentFlask[source] # None THEN [g1 EXCEPT ![ParentFlask[source]] = g1[source]]
              ELSE IF a[source] # None THEN [g1 EXCEPT ![a[source]] = g1[source]]
              ELSE g1
        g3 == [g2 EXCEPT ![target] = g2[target] + volume]
    IN  IF ParentFlask[target] # None THEN [g3 EXCEPT ![ParentFlask[target]] = g3[ParentFlask[target]] + volume]
        ELSE IF a[target] # None THEN [g3 EXCEPT ![a[target]] = g3[a[target]] + volume]
        ELSE g3

\* PumpExecutioner.update_node_volumes; g is the volume of every node and a
\* the associated flask of every node
UpdateNodeVolumes(g, a, source, target, volume) ==
    LET g1 == [g EXCEPT ![source] = IF g[source] - volume < 0 THEN 0 ELSE g[source] - volume]
        g2 == IF ParentFlask[source] # None THEN [g1 EXCEPT ![ParentFlask[source]] = g1[source]]
              ELSE IF a[source] # None THEN [g1 EXCEPT ![a[source]] = g1[source]]
              ELSE g1
        g3 == [g2 EXCEPT ![target] = g2[target] + volume]
    IN  IF ParentFlask[target] # None THEN [g3 EXCEPT ![ParentFlask[target]] = g3[ParentFlask[target]] + volume]
        ELSE IF a[target] # None THEN [g3 EXCEPT ![a[target]] = g3[a[target]] + volume]
        ELSE g3

VolToPump_uncapped(volume, pump) == volume

\* move_single_valve: the volume one cycle aspirates
VolToPump(volume, pump) == IF volume > MaxVolume[pump] THEN MaxVolume[pump] ELSE volume

\* move_single_valve: volume -= vol_to_pump; if volume < 0: volume = 0
AfterCycle(volume, pump) ==
    IF volume - VolToPump(volume, pump) < 0 THEN 0 ELSE volume - VolToPump(volume, pump)

\* move_multiple_valves: the pumps of the valves of the path, in path order
ChainPumps(valves) == [k \in 1..Len(valves) |-> PumpOf[valves[k]]]

SeqMin(s) == CHOOSE x \in {s[k] : k \in DOMAIN s} : \A k \in DOMAIN s : x <= s[k]

\* move_multiple_valves: volume of the smallest syringe in the path
MinimalPumpVolume(pumps) == SeqMin([k \in DOMAIN pumps |-> MaxVolume[pumps[k]]])

VolumeToPump_uncapped(volume, minimal) == volume

\* move_multiple_valves, beat i, first pump: the volume it aspirates
VolumeToPump(volume, minimal) == IF volume > minimal THEN minimal ELSE volume

\* a chain whose stages read the stage before them after it has moved
PumpAfterBeat_forward(k, i, old, volume, minimal) ==
    IF k = 1 /\ i % 2 = 0
    THEN IF VolumeToPump(volume, minimal) # 0 THEN VolumeToPump(volume, minimal) ELSE old[1]
    ELSE IF k = 1
    THEN 0
    ELSE IF (i % 2 = 1) # ((k - 1) % 2 = 1)
    THEN 0
    ELSE old[k]

\* move_multiple_valves, beat i: the volume recorded for the pump at chain
\* position k (1 is the first) once the pumps have moved; old holds the
\* volumes recorded before the beat (the pumps are served last to first, so
\* pump k reads the volume of pump k-1 before this beat changes it)
PumpAfterBeat(k, i, old, volume, minimal) ==
    IF k = 1 /\ i % 2 = 0
    THEN IF VolumeToPump(volume, minimal) # 0 THEN VolumeToPump(volume, minimal) ELSE old[1]
    ELSE IF k = 1
    THEN 0
    ELSE IF (i % 2 = 1) # ((k - 1) % 2 = 1)
    THEN 0
    ELSE IF old[k - 1] # 0 THEN old[k - 1] ELSE old[k]

VolumeAfterBeat_every(i, volume, minimal) == volume - VolumeToPump(volume, minimal)

\* move_multiple_valves, beat i: the volume still to take from the source
VolumeAfterBeat(i, volume, minimal) ==
    IF i % 2 = 0 THEN volume - VolumeToPump(volume, minimal) ELSE volume

\* the rig as loaded, no pump instruction in progress
NoMove ==
    [source |-> None, dest |-> None, volume |-> 0, path |-> <<>>, rem |-> 0, beat |-> 0,
     finished |-> FALSE, cycles |-> 0, aspirated |-> <<>>, warnings |-> {}]

NoOp == [opcode |-> "-", a1 |-> None, a2 |-> None, stage |-> "-"]

\* no chain of pumps is being driven apart from the rig
NoBrigade ==
    [max_volume |-> <<>>, current_volume |-> <<>>, total |-> 0, volume |-> 0, i |-> 0,
     busy |-> FALSE, volume_to_pump |-> 0, left |-> 0, delivered |-> 0, beat |-> -1,
     valves |-> <<>>, switched |-> FALSE, ready |-> {}]

\* the pumps and valves as ChemputerDevice.__init__ leaves them: connected,
\* flag clear, response thread listening; nobody drives them
Devices == {"valve", "pump"}

DevicesAtRest ==
    /\ tcp = [d \in Devices |-> "up"]
    /\ device_ready_flag = [d \in Devices |-> FALSE]
    /\ tcp_response_thread = [d \in Devices |-> "listening"]
    /\ executing = [d \in Devices |-> <<>>]
    /\ user = [pc |-> "idle", step |-> 1]

\* the words, numbers and macro names of the scripts that are compiled
WORDS == {"x", "y"}

NUMBERS == {"5", "7"}

FuncNames == {"M"}

\* a name the table of variables does not hold
Unset == "unset"

\* a macro the table of functions does not hold
NoFunction == [defined |-> FALSE, arg_list |-> <<>>, body |-> <<>>]

\* the parser as the import of ChASM_parser leaves it: both tables empty,
\* nothing parsed
CompilerAtRest ==
    /\ variables = [w \in WORDS \cup NUMBERS |-> Unset]
    /\ functions = [f \in FuncNames |-> NoFunction]
    /\ heap = <<>>
    /\ stack = <<>>
    /\ parsed = <<>>
    /\ perr = "-"
    /\ calls = <<>>
    /\ loops = <<>>
    /\ nparse = 0
    /\ defs = [w \in WORDS |-> Unset]
    /\ refs = {}
    /\ mains = [count |-> 0, body |-> <<>>]
    /\ skipped = FALSE
    /\ returned = FALSE

GraphAtRest ==
    /\ vol = LoadedVolume
    /\ associated_flask = LoadedAssociatedFlask
    /\ pump_cmd = NoOp
    /\ todo = <<>>
    /\ mv = NoMove
    /\ mphase = "idle"
    /\ ninstr = 0
    /\ nsteps = 0
    /\ pre = LoadedVolume

\* no rig has been given to setup_special_devices
NoRig == [edges |-> {}, associated_flask |-> <<>>, parent_flask |-> <<>>, pc |-> "-", path |-> <<>>]

\* no node has been given to setup_serial_devices
NoSetup == [declared |-> <<>>, found_devices |-> {}, node |-> <<>>, objects |-> 0, opened |-> <<>>,
            simulation |-> FALSE, pc |-> 0]

\* no thread is inside update_node_volumes
NoRace == [graph |-> <<>>, task |-> <<>>, initial |-> <<>>, overlap |-> {}]

\* no command has been called on the device
NoCall == [fn |-> "-", arg |-> <<>>, written |-> <<>>, raised |-> "-", calls |-> 0]

\* no wait_for_temp has been called
NoWait == [executor |-> "-", simulation |-> FALSE, setpoint |-> 0, pv |-> 0, pc |-> "-", polls |-> 0]

\* no snapshot has been written, no restart has rebuilt a graph
SnapshotAtRest ==
    /\ crash_dump = [exists |-> FALSE, data |-> [n \in Vessels |-> 0]]
    /\ dumped = [n \in Vessels |-> 0]
    /\ rebuilt = [done |-> FALSE, node |-> LoadedVolume, snapshot |-> [n \in Vessels |-> 0]]

\* no device call is in progress
ActorAtRest ==
    /\ soft_fail = FALSE
    /\ dev_command_queue = <<>>
    /\ reply_queue = <<>>
    /\ th = [t \in {"main", "task1", "task2", "worker"} |-> [pc |-> "out", fn |-> "-", arg |-> "-", step |-> 0, result |-> "-"]]
    /\ io = {}
    /\ heating_on = FALSE
    /\ fault_flip = FALSE

(***************************************************************************)
(* The dispatcher                                                          *)
(***************************************************************************)
InitDispatch ==
    /\ ActorAtRest
    /\ GraphAtRest
    /\ brigade = NoBrigade
    /\ DevicesAtRest
    /\ CompilerAtRest
    /\ SnapshotAtRest
    /\ wait = NoWait
    /\ conn = NoCall
    /\ rig = NoRig
    /\ found = NoSetup
    /\ race = NoRace
    /\ script \in {Numbered(s) : s \in Scripts}
    /\ command_queue = script
    /\ cmd = NoCmd
    /\ pc = "Ready"
    /\ join_idx = 1
    /\ thread_pool = <<>>
    /\ task = [i \in 1..Len(script) |-> "unborn"]
    /\ dispatched = <<>>

\* run_platform pops a Parallel instruction and execute() dispatches it
PopParallel ==
    /\ pc = "Ready"
    /\ command_queue # <<>>
    /\ LET c == NextCmd(command_queue) IN
        /\ c.mode = PARALLEL
        /\ command_queue' = RestCmds(command_queue)
        /\ dispatched' = Append(dispatched, c.idx)
        /\ IF StartsThread(c)
           THEN /\ thread_pool' = PoolAppend(thread_pool, c.idx)
                /\ task' = [task EXCEPT ![c.idx] = "running"]
                /\ pc' = "Ready"
                /\ cmd' = NoCmd
           ELSE IF MoveRaises(c)
           THEN /\ pc' = "Unwind"
                /\ cmd' = NoCmd
                /\ UNCHANGED <<thread_pool, task>>
           ELSE IF Family(c.opcode) = "breakpoint"
           THEN /\ pc' = "Breakpoint"
                /\ cmd' = c
                /\ UNCHANGED <<thread_pool, task>>
           ELSE /\ pc' = "Ready"
                /\ cmd' = NoCmd
                /\ UNCHANGED <<thread_pool, task>>
    /\ UNCHANGED nondvars
    /\ UNCHANGED <<script, join_idx>>

\* run_platform pops a Sequential instruction; execute() enters
\* join_parallel_operations
PopSequential ==
    /\ pc = "Ready"
    /\ command_queue # <<>>
    /\ LET c == NextCmd(command_queue) IN
        /\ c.mode = SEQUENTIAL
        /\ command_queue' = RestCmds(command_queue)
        /\ dispatched' = Append(dispatched, c.idx)
        /\ cmd' = c
    /\ pc' = "Join"
    /\ join_idx' = 1
    /\ UNCHANGED nondvars
    /\ UNCHANGED <<script, thread_pool, task>>

\* one iteration of "for thread in self.thread_pool: thread.join()"
JoinThread ==
    /\ pc = "Join"
    /\ join_idx <= Len(thread_pool)
    /\ Joined(thread_pool[join_idx])
    /\ join_idx' = join_idx + 1
    /\ UNCHANGED nondvars
    /\ UNCHANGED <<script, command_queue, cmd, pc, thread_pool, task, dispatched>>

\* the loop is over: thread_pool = [] and the instruction is routed
JoinDone ==
    /\ pc = "Join"
    /\ join_idx > Len(thread_pool)
    /\ thread_pool' = <<>>
    /\ join_idx' = 1
    /\ IF RunsInline(cmd)
       THEN pc' = "Inline" /\ cmd' = cmd
       ELSE IF MoveRaises(cmd)
       THEN pc' = "Unwind" /\ cmd' = NoCmd
       ELSE IF Family(cmd.opcode) = "breakpoint"
       THEN pc' = "Breakpoint" /\ cmd' = cmd
       ELSE pc' = "Ready" /\ cmd' = NoCmd
    /\ UNCHANGED nondvars
    /\ UNCHANGED <<script, command_queue, task, dispatched>>

\* the executor operation called inline returns; run_platform dumps the
\* graph and loops
InlineReturns ==
    /\ pc = "Inline"
    /\ pc' = "Ready"
    /\ cmd' = NoCmd
    /\ UNCHANGED nondvars
    /\ UNCHANGED <<script, command_queue, join_idx, thread_pool, task, dispatched>>

\* the executor operation called inline raises: the exception leaves
\* run_platform and the main thread
InlineRaises ==
    /\ pc = "Inline"
    /\ pc' = "Unwind"
    /\ cmd' = NoCmd
    /\ UNCHANGED nondvars
    /\ UNCHANGED <<script, command_queue, join_idx, thread_pool, task, dispatched>>

\* BREAKPOINT: input() returns something other than "off"
BreakpointContinue ==
    /\ pc = "Breakpoint"
    /\ pc' = "Ready"
    /\ cmd' = NoCmd
    /\ UNCHANGED nondvars
    /\ UNCHANGED <<script, command_queue, join_idx, thread_pool, task, dispatched>>

\* BREAKPOINT: input() returns "off" and sys.exit() raises SystemExit
BreakpointOff ==
    /\ pc = "Breakpoint"
    /\ pc' = "Unwind"
    /\ cmd' = NoCmd
    /\ UNCHANGED nondvars
    /\ UNCHANGED <<script, command_queue, join_idx, thread_pool, task, dispatched>>

\* the target of a thread returns
TaskCompletes(t) ==
    /\ task[t] = "running"
    /\ task' = [task EXCEPT ![t] = "done"]
    /\ UNCHANGED nondvars
    /\ UNCHANGED <<script, command_queue, cmd, pc, join_idx, thread_pool, dispatched>>

\* the target of a thread raises
TaskFails(t) ==
    /\ task[t] = "running"
    /\ task' = [task EXCEPT ![t] = "failed"]
    /\ UNCHANGED nondvars
    /\ UNCHANGED <<script, command_queue, cmd, pc, join_idx, thread_pool, dispatched>>

\* what os._exit(0) does to a thread: the process ends at once
ExitKills(s) == IF s = "running" THEN "killed" ELSE s

\* the while loop of run_platform ends and the client calls os._exit(0)
ProcessExit ==
    /\ pc = "Ready"
    /\ command_queue = <<>>
    /\ pc' = "Exited"
    /\ task' = [t \in DOMAIN task |-> ExitKills(task[t])]
    /\ UNCHANGED nondvars
    /\ UNCHANGED <<script, command_queue, cmd, join_idx, thread_pool, dispatched>>

\* an exception has left the main thread: the interpreter waits for the
\* non-daemon threads and ends
Finalize ==
    /\ pc = "Unwind"
    /\ Running = {}
    /\ pc' = "Ended"
    /\ UNCHANGED nondvars
    /\ UNCHANGED <<script, command_queue, cmd, join_idx, thread_pool, task, dispatched>>

NextDispatch ==
    \/ PopParallel
    \/ PopSequential
    \/ JoinThread
    \/ JoinDone
    \/ InlineReturns
    \/ InlineRaises
    \/ BreakpointContinue
    \/ BreakpointOff
    \/ \E t \in DOMAIN task : TaskCompletes(t)
    \/ \E t \in DOMAIN task : TaskFails(t)
    \/ ProcessExit
    \/ Finalize

SpecDispatch == InitDispatch /\ [][NextDispatch]_vars

(***************************************************************************)
(* Properties of the dispatcher                                            *)
(***************************************************************************)
Range(s) == {s[i] : i \in DOMAIN s}

NeverStartedOrOver == {"unborn", "done", "failed"}

\* C1: when the dispatcher leaves join_parallel_operations for a Sequential
\* instruction (and so starts its operation, whatever the opcode family),
\* the in-flight set is empty and every thread created for an earlier
\* instruction has terminated.
C1_SequentialBarrier ==
    [][(pc = "Join" /\ pc' # "Join") =>
          /\ cmd.mode = SEQUENTIAL
          /\ thread_pool' = <<>>
          /\ \A i \in 1..(cmd.idx - 1) : task'[i] \in NeverStartedOrOver]_vars

C1_Witness ==
    /\ pc = "Inline"
    /\ cmd.mode = SEQUENTIAL
    /\ cmd.idx = 3
    /\ task[1] \in Terminated
    /\ task[2] \in Terminated

\* C2: the instructions handed to execute() are the compiled list in order,
\* each once (all of them when run_platform returns), and while the
\* operation of a Sequential instruction runs no thread of a Parallel
\* instruction is running.
C2_OrderAndExclusion ==
    /\ dispatched = [i \in 1..Len(dispatched) |-> i]
    /\ Len(dispatched) <= Len(script)
    /\ command_queue = SubSeq(script, Len(dispatched) + 1, Len(script))
    /\ (pc = "Exited" => Len(dispatched) = Len(script))
    /\ ((pc \in {"Inline", "Breakpoint"} /\ cmd.mode = SEQUENTIAL) => Running = {})

C2_Witness ==
    /\ pc = "Inline"
    /\ cmd.mode = SEQUENTIAL
    /\ dispatched = <<1, 2, 3>>
    /\ script[1].mode = SEQUENTIAL
    /\ script[2].mode = PARALLEL
    /\ task[2] = "done"

\* the Parallel instructions dispatched after the last Sequential one
SinceLastSequential ==
    {i \in Range(dispatched) : script[i].mode = PARALLEL /\ \A j \in Range(dispatched) : j > i => script[j].mode = PARALLEL}

C4_TasksRunToTheEnd ==
    pc \in {"Exited", "Ended"} => \A t \in DOMAIN task : task[t] \in NeverStartedOrOver

(***************************************************************************)
(* The device actor: SerialDevice and its IKARV10 child class              *)
(***************************************************************************)
Worker == "worker"

\* the thread that created the device (the dispatcher thread) and the
\* threads of Parallel instructions
Callers == {"main", "task1", "task2"}

Threads == Callers \cup {Worker}

\* SerialDevice.__init__: self.current_thread = threading.get_ident()
current_thread == "main"

Enqueues_always(t) == TRUE

\* command.wrapper: threading.get_ident() == device_instance.current_thread
Enqueues(t) == t = current_thread

\* commands of IKARV10 a caller invokes, with the argument that matters
Calls ==
    {[fn |-> "temperature_pv", arg |-> "-"],
     [fn |-> "start_heater", arg |-> "-"],
     [fn |-> "stop_heater", arg |-> "-"],
     [fn |-> "rotation_speed_sp", arg |-> "in_range"],
     [fn |-> "rotation_speed_sp", arg |-> "out_of_range"],
     [fn |-> "initialise", arg |-> "-"]}

\* IKARV10.initialise and IKARV10.keepalive call other commands
Compound == {"initialise", "keepalive"}

\* the commands that reach send_message during fn, in order
Body(fn) ==
    IF fn = "initialise" THEN <<"start_rotation", "stop_rotation", "start_heater", "stop_heater">>
    ELSE IF fn = "keepalive" THEN <<"temperature_pv">>
    ELSE <<fn>>

\* the get_return argument the command passes to send_message
GetReturn(sub) == sub = "temperature_pv"

\* rotation_speed_sp: rpm < 0 or rpm > self.MAX_RPM raises ValueError
ArgumentRejected(fn, arg) == fn = "rotation_speed_sp" /\ arg = "out_of_range"

\* what happens on the connection during one send_message
IOOutcomes == {"ok", "mismatch", "readfail", "writefail"}

\* SerialDevice.send_message and __receive_message: the value returned, or
\* "Exception" when an exception leaves send_message (a write error is
\* re-raised unless soft-fail; every error of __receive_message, the
\* ValueError of the pattern check included, is re-raised as Exception)
SendMessage(o, soft, get_return) ==
    IF o = "writefail" /\ ~soft THEN "Exception"
    ELSE IF ~get_return THEN "True"
    ELSE IF o = "readfail" THEN "Exception"
    ELSE IF o \in {"mismatch", "writefail"} THEN (IF soft THEN "garbage" ELSE "Exception")
    ELSE "value"

\* __command_handler_daemon: except ValueError
Caught(e) == e = "ValueError"

AtRest == [pc |-> "out", fn |-> "-", arg |-> "-", step |-> 0, result |-> "-"]

DispatchAtRest ==
    /\ script = <<>>
    /\ command_queue = <<>>
    /\ cmd = NoCmd
    /\ pc = "Ready"
    /\ join_idx = 1
    /\ thread_pool = <<>>
    /\ task = <<>>
    /\ dispatched = <<>>

InitActor ==
    /\ DispatchAtRest
    /\ GraphAtRest
    /\ brigade = NoBrigade
    /\ DevicesAtRest
    /\ CompilerAtRest
    /\ SnapshotAtRest
    /\ wait = NoWait
    /\ conn = NoCall
    /\ rig = NoRig
    /\ found = NoSetup
    /\ race = NoRace
    /\ soft_fail \in BOOLEAN
    /\ dev_command_queue = <<>>
    /\ reply_queue = <<>>
    /\ th = [t \in Threads |-> AtRest]
    /\ io = {}
    /\ heating_on = FALSE
    /\ fault_flip = FALSE

\* a keepalive whose return value is put on the reply queue like that of a
\* queued command
Outcome_keepalive_replies(t, kind, v) ==
    IF t = Worker
    THEN IF kind = "return"
         THEN /\ th' = [th EXCEPT ![t] = AtRest]
              /\ reply_queue' = Append(reply_queue, [fn |-> th[t].fn, val |-> v])
              /\ UNCHANGED <<dev_command_queue, fault_flip>>
         ELSE IF Caught(kind)
         THEN /\ th' = [th EXCEPT ![t] = AtRest]
              /\ dev_command_queue' = <<>>
              /\ reply_queue' = <<>>
              /\ fault_flip' = ~fault_flip
         ELSE /\ th' = [th EXCEPT ![t] = [AtRest EXCEPT !.pc = "dead"]]
              /\ fault_flip' = ~fault_flip
              /\ UNCHANGED <<dev_command_queue, reply_queue>>
    ELSE /\ th' = [th EXCEPT ![t] = [AtRest EXCEPT !.pc = IF kind = "return" THEN "out" ELSE "raised", !.result = v]]
         /\ UNCHANGED <<dev_command_queue, reply_queue, fault_flip>>

\* the function running on thread t ends: kind is "return", "ValueError"
\* or "Exception".  On the worker this is the rest of the loop body of
\* __command_handler_daemon; on a caller the call returns or raises.
Outcome(t, kind, v) ==
    IF t = Worker
    THEN IF kind = "return"
         THEN /\ th' = [th EXCEPT ![t] = AtRest]
              /\ reply_queue' = IF th[t].fn = "keepalive" THEN reply_queue ELSE Append(reply_queue, [fn |-> th[t].fn, val |-> v])
              /\ UNCHANGED <<dev_command_queue, fault_flip>>
         ELSE IF Caught(kind)
         THEN /\ th' = [th EXCEPT ![t] = AtRest]
              /\ dev_command_queue' = <<>>
              /\ reply_queue' = <<>>
              /\ fault_flip' = ~fault_flip
         ELSE /\ th' = [th EXCEPT ![t] = [AtRest EXCEPT !.pc = "dead"]]
              /\ fault_flip' = ~fault_flip
              /\ UNCHANGED <<dev_command_queue, reply_queue>>
    ELSE /\ th' = [th EXCEPT ![t] = [AtRest EXCEPT !.pc = IF kind = "return" THEN "out" ELSE "raised", !.result = v]]
         /\ UNCHANGED <<dev_command_queue, reply_queue, fault_flip>>

\* a caller invokes a command: the wrapper of the decorator
Call(t, c) ==
    /\ t \in Callers
    /\ th[t].pc = "out"
    /\ IF t = "main"
       THEN \A u \in Callers \ {"main"} : th[u].pc \in {"out", "raised"}
       ELSE th["main"].pc = "out"
    /\ IF Enqueues(t)
       THEN /\ dev_command_queue' = Append(dev_command_queue, [fn |-> c.fn, arg |-> c.arg, by |-> t])
            /\ th' = [th EXCEPT ![t] = [pc |-> "waiting", fn |-> c.fn, arg |-> c.arg, step |-> 0, result |-> "-"]]
       ELSE /\ th' = [th EXCEPT ![t] = [pc |-> "method", fn |-> c.fn, arg |-> c.arg, step |-> 0, result |-> "-"]]
            /\ UNCHANGED dev_command_queue
    /\ UNCHANGED <<soft_fail, reply_queue, io, heating_on, fault_flip>>
    /\ UNCHANGED nonavars

\* the wrapper finds the reply queue non-empty and returns what it holds
GetReply(t) ==
    /\ th[t].pc = "waiting"
    /\ reply_queue # <<>>
    /\ reply_queue' = Tail(reply_queue)
    /\ th' = [th EXCEPT ![t] = IF t = Worker
                               THEN [th[t] EXCEPT !.pc = "method", !.step = th[t].step + 1]
                               ELSE [AtRest EXCEPT !.result = Head(reply_queue)]]
    /\ UNCHANGED <<soft_fail, dev_command_queue, io, heating_on, fault_flip>>
    /\ UNCHANGED nonavars

\* the worker finds a command in the queue and starts the method
WorkerTake ==
    /\ th[Worker].pc = "out"
    /\ dev_command_queue # <<>>
    /\ dev_command_queue' = Tail(dev_command_queue)
    /\ th' = [th EXCEPT ![Worker] = [pc |-> "method", fn |-> Head(dev_command_queue).fn, arg |-> Head(dev_command_queue).arg, step |-> 0, result |-> "-"]]
    /\ UNCHANGED <<soft_fail, reply_queue, io, heating_on, fault_flip>>
    /\ UNCHANGED nonavars

\* the worker finds the queue empty and calls keepalive(), which polls the
\* bath temperature when the heating is on (and returns at once when not)
WorkerKeepalive ==
    /\ th[Worker].pc = "out"
    /\ dev_command_queue = <<>>
    /\ heating_on
    /\ th' = [th EXCEPT ![Worker] = [pc |-> "method", fn |-> "keepalive", arg |-> "-", step |-> 0, result |-> "-"]]
    /\ UNCHANGED <<soft_fail, dev_command_queue, reply_queue, io, heating_on, fault_flip>>
    /\ UNCHANGED nonavars

\* the function on thread t runs up to its next send_message: it checks
\* its argument, or calls its next command through the wrapper
MethodStep(t) ==
    /\ th[t].pc = "method"
    /\ LET r == th[t]
           sub == Body(r.fn)[r.step + 1]
       IN  IF ArgumentRejected(r.fn, r.arg)
           THEN /\ Outcome(t, "ValueError", "-")
                /\ UNCHANGED <<io, heating_on>>
           ELSE IF r.fn \in Compound /\ Enqueues(t)
           THEN /\ dev_command_queue' = Append(dev_command_queue, [fn |-> sub, arg |-> "-", by |-> t])
                /\ th' = [th EXCEPT ![t].pc = "waiting"]
                /\ UNCHANGED <<reply_queue, io, heating_on, fault_flip>>
           ELSE /\ th' = [th EXCEPT ![t].pc = "io", ![t].step = r.step + 1]
                /\ io' = io \cup {t}
                /\ heating_on' = IF sub = "start_heater" THEN TRUE ELSE IF sub = "stop_heater" THEN FALSE ELSE heating_on
                /\ UNCHANGED <<dev_command_queue, reply_queue, fault_flip>>
    /\ UNCHANGED soft_fail
    /\ UNCHANGED nonavars

\* send_message on thread t is over, with outcome o on the connection
IOEnd(t, o) ==
    /\ th[t].pc = "io"
    /\ LET r == th[t]
           res == SendMessage(o, soft_fail, GetReturn(Body(r.fn)[r.step]))
       IN  IF res = "Exception"
           THEN IF r.fn = "initialise"
                THEN Outcome(t, "return", "False")
                ELSE Outcome(t, "Exception", "-")
           ELSE IF r.step < Len(Body(r.fn))
           THEN /\ th' = [th EXCEPT ![t].pc = "method"]
                /\ UNCHANGED <<dev_command_queue, reply_queue, fault_flip>>
           ELSE Outcome(t, "return", IF r.fn = "initialise" THEN "True" ELSE IF r.fn = "rotation_speed_sp" THEN "None" ELSE res)
    /\ io' = io \ {t}
    /\ UNCHANGED <<soft_fail, heating_on>>
    /\ UNCHANGED nonavars

NextActor ==
    \/ \E t \in Callers, c \in Calls : Call(t, c)
    \/ \E t \in Threads : GetReply(t)
    \/ WorkerTake
    \/ WorkerKeepalive
    \/ \E t \in Threads : MethodStep(t)
    \/ \E t \in Threads, o \in IOOutcomes : IOEnd(t, o)

SpecActor == InitActor /\ [][NextActor]_vars

(***************************************************************************)
(* Properties of the device actor                                          *)
(***************************************************************************)
\* C5: at most one send/receive operation is in progress on the connection
\* of the device at any time.
C5_OneIOAtATime == Cardinality(io) <= 1

\* C6: a command invoked from a thread other than the worker is never
\* executed by the calling thread.
C6_CallersNeverExecute == \A t \in Callers : th[t].pc \notin {"method", "io"}

\* C7: the worker never puts a command on the command queue and never
\* waits on the reply queue: a command called on the worker (by a command
\* or by keepalive) is executed there at once.
C7_WorkerExecutesDirectly ==
    /\ th[Worker].pc # "waiting"
    /\ \A i \in DOMAIN dev_command_queue : dev_command_queue[i].by # Worker
    /\ (th[Worker].fn \in Compound => th[Worker].pc \in {"method", "io"})

C7_Witness ==
    /\ th[Worker].pc = "io"
    /\ th[Worker].fn = "initialise"
    /\ th[Worker].step = 3

\* the worker loop goes to keepalive() only from its top and with the
\* command queue empty
KeepaliveOnEmpty ==
    (th[Worker].fn # "keepalive" /\ th'[Worker].fn = "keepalive") =>
        (th[Worker].pc = "out" /\ dev_command_queue = <<>>)

\* the command queue is first in, first out, and the worker takes the next
\* command only from the top of its loop, when the one before is over
OneAtATimeInOrder ==
    /\ (Len(dev_command_queue') > Len(dev_command_queue)) =>
           SubSeq(dev_command_queue', 1, Len(dev_command_queue)) = dev_command_queue
    /\ (Len(dev_command_queue') < Len(dev_command_queue) /\ fault_flip' = fault_flip) =>
           /\ th[Worker].pc = "out"
           /\ dev_command_queue' = Tail(dev_command_queue)
           /\ th'[Worker].fn = Head(dev_command_queue).fn
           /\ th'[Worker].arg = Head(dev_command_queue).arg

\* a queued command that returns puts one reply, its own, on the reply
\* queue, and nothing else puts a reply there
OneReplyEach ==
    /\ (th[Worker].pc \in {"method", "io"} /\ th[Worker].fn # "keepalive"
           /\ th'[Worker].pc = "out" /\ fault_flip' = fault_flip) =>
           reply_queue' = Append(reply_queue, [fn |-> th[Worker].fn, val |-> reply_queue'[Len(reply_queue')].val])
    /\ (Len(reply_queue') > Len(reply_queue)) =>
           /\ th[Worker].pc \in {"method", "io"}
           /\ th[Worker].fn # "keepalive"
           /\ th'[Worker].pc = "out"
           /\ Len(reply_queue') = Len(reply_queue) + 1

\* the wrapper returns to a blocked caller the reply of the command it
\* has queued
OwnReply ==
    \A t \in Callers :
        (th[t].pc = "waiting" /\ th'[t].pc # "waiting") =>
            /\ reply_queue # <<>>
            /\ Head(reply_queue).fn = th[t].fn
            /\ th'[t].result = Head(reply_queue)

\* C31: the worker calls keepalive only when it has found the command
\* queue empty, takes the queued commands one at a time in the order in
\* which they were queued and puts exactly one reply per command that
\* returns, so a blocked caller gets the result of its own command and never
\* that of another command or of a keepalive.
C31_WorkerServesInOrder ==
    [][KeepaliveOnEmpty /\ OneAtATimeInOrder /\ OneReplyEach /\ OwnReply]_vars

\* the caller has queued a temperature query while the worker was inside a
\* keepalive that reads the same temperature; the keepalive is over and the
\* worker has taken the caller's query
C31_Witness ==
    /\ heating_on
    /\ th["main"].pc = "waiting"
    /\ th["main"].fn = "temperature_pv"
    /\ th[Worker].pc = "io"
    /\ th[Worker].fn = "temperature_pv"
    /\ reply_queue = <<>>
    /\ dev_command_queue = <<>>

\* C8: a step in which an exception reaches the worker loop leaves both
\* queues empty and the worker at the top of its loop.
C8_WorkerRecovers ==
    [][fault_flip' # fault_flip =>
          /\ dev_command_queue' = <<>>
          /\ reply_queue' = <<>>
          /\ th'[Worker].pc = "out"]_vars

(***************************************************************************)
(* The pump executor: MOVE, PRIME, CLEAN and SEPARATE on the rig.  One     *)
(* instruction at a time is executed; a move is followed cycle by cycle    *)
(* (single valve) or beat by beat (several valves) and ends with           *)
(* update_node_volumes.                                                    *)
(***************************************************************************)
\* the volume arguments the scripts give to MOVE and CLEAN (t_NUMBER admits a
\* leading minus sign)
ScriptVolumes == {-2, 2, 5}

\* the source and destination arguments the scripts give to MOVE
MovePairs ==
    { <<"flask_a", "flask_b">>, <<"flask_a", "waste_1">>, <<"flask_a", "flask_a">>,
      <<"flask_a", "flask_separator_top">>, <<"flask_separator_bottom", "flask_b">>,
      <<"flask_separator_top", "flask_separator_bottom">>, <<"flask_b", "flask_a">>,
      <<"flask_separator_top", "waste_1">>, <<"flask_a", "collection_flask">>,
      <<"flask_b", "column">>, <<"collection_flask", "column">> }

\* the targets the scripts give to SEPARATE: lower phase, upper phase
SeparatePairs ==
    { <<"waste_2", "flask_b">>, <<"flask_b", "flask_separator_top">>, <<"waste_2", "flask_a">> }

\* the sources the scripts give to CLEAN
CleanSources == {"flask_a"}

\* prime_tubes: the nodes of class flask, in the order the graph yields them
PrimeOrder == <<"flask_a", "flask_b", "flask_separator_bottom">>

\* prime_tubes: the waste among the successors of a valve
WasteOf == [v \in ValveNodes |-> IF v = "valve_1" THEN "waste_1" ELSE "waste_2"]

\* clean_all: every outlet of every valve that is neither a valve nor the source
CleanOrder ==
    <<"flask_a", "flask_separator_top", "waste_1", "flask_b", "flask_separator_bottom", "waste_2",
      "column", "collection_flask">>

RECURSIVE Without(_, _)
Without(s, x) ==
    IF s = <<>> THEN <<>>
    ELSE IF Head(s) = x THEN Without(Tail(s), x)
    ELSE <<Head(s)>> \o Without(Tail(s), x)

\* the moves prime_tubes makes
PrimeMoves ==
    [k \in 1..Len(PrimeOrder) |->
        [source |-> PrimeOrder[k],
         dest   |-> WasteOf[ParentValve[PrimeOrder[k]]],
         volume |-> TubeVolume[PrimeOrder[k]]]]

\* the moves clean_all makes
CleanMoves(source, volume) ==
    [k \in 1..Len(Without(CleanOrder, source)) |->
        [source |-> source, dest |-> Without(CleanOrder, source)[k], volume |-> volume]]

\* entry of move(): arguments, path and the running volume of the loops
BeginMove(source, dest, volume) ==
    /\ mv' = [source |-> source, dest |-> dest, volume |-> volume,
              path |-> ShortestPath(source, dest), rem |-> volume, beat |-> 0,
              finished |-> FALSE, cycles |-> 0, aspirated |-> <<>>,
              warnings |-> Warnings(vol, associated_flask, source, dest, volume)]
    /\ pre' = vol
    /\ mphase' = "transfer"

\* process_pump_cmd, MOVE with a number
StartMove(source, dest, v) ==
    /\ mphase = "idle"
    /\ ninstr < MaxInstr
    /\ ninstr' = ninstr + 1
    /\ pump_cmd' = [opcode |-> "MOVE", a1 |-> source, a2 |-> dest, stage |-> "-"]
    /\ BeginMove(source, dest, v)
    /\ UNCHANGED <<vol, associated_flask, todo, nsteps>>
    /\ UNCHANGED nongvars

\* process_pump_cmd, MOVE with "all"
StartMoveAll(source, dest) ==
    /\ mphase = "idle"
    /\ ninstr < MaxInstr
    /\ ninstr' = ninstr + 1
    /\ pump_cmd' = [opcode |-> "MOVE", a1 |-> source, a2 |-> dest, stage |-> "-"]
    /\ BeginMove(source, dest, vol[source])
    /\ UNCHANGED <<vol, associated_flask, todo, nsteps>>
    /\ UNCHANGED nongvars

\* process_pump_cmd, PRIME: prime_tubes up to its first move
StartPrime ==
    /\ mphase = "idle"
    /\ ninstr < MaxInstr
    /\ ninstr' = ninstr + 1
    /\ pump_cmd' = [opcode |-> "PRIME", a1 |-> None, a2 |-> None, stage |-> "-"]
    /\ BeginMove(PrimeMoves[1].source, PrimeMoves[1].dest, PrimeMoves[1].volume)
    /\ todo' = Tail(PrimeMoves)
    /\ UNCHANGED <<vol, associated_flask, nsteps>>
    /\ UNCHANGED nongvars

\* process_pump_cmd, CLEAN: clean_all up to its first move
StartClean(source, v) ==
    /\ mphase = "idle"
    /\ ninstr < MaxInstr
    /\ ninstr' = ninstr + 1
    /\ pump_cmd' = [opcode |-> "CLEAN", a1 |-> source, a2 |-> None, stage |-> "-"]
    /\ BeginMove(CleanMoves(source, v)[1].source, CleanMoves(source, v)[1].dest, v)
    /\ todo' = Tail(CleanMoves(source, v))
    /\ UNCHANGED <<vol, associated_flask, nsteps>>
    /\ UNCHANGED nongvars

\* process_pump_cmd, SEPARATE: separate_phases up to the priming of the sensor
StartSeparate(lower_phase_target, upper_phase_target) ==
    /\ mphase = "idle"
    /\ ninstr < MaxInstr
    /\ ninstr' = ninstr + 1
    /\ pump_cmd' = [opcode |-> "SEPARATE", a1 |-> lower_phase_target, a2 |-> upper_phase_target,
                    stage |-> "step"]
    /\ BeginMove("flask_separator_bottom", lower_phase_target, SEPARATION_DEFAULT_PRIMING_VOLUME)
    /\ nsteps' = 0
    /\ UNCHANGED <<vol, associated_flask, todo>>
    /\ UNCHANGED nongvars

\* the column and destination arguments the scripts give to SWITCH_COLUMN
ColumnSwitches == { <<"column", "collect">>, <<"column", "waste">> }

\* switch_column_fraction: the collection flask among the successors of a valve
CollectionOf == [v \in ValveNodes |-> IF v = "valve_2" THEN "collection_flask" ELSE None]

\* process_pump_cmd, SWITCH_COLUMN: switch_column_fraction
SwitchColumn(column, destination) ==
    /\ mphase = "idle"
    /\ ninstr < MaxInstr
    /\ ninstr' = ninstr + 1
    /\ WasteOf[ParentValve[column]] # None /\ CollectionOf[ParentValve[column]] # None
    /\ destination \in {"collect", "waste"}
    /\ associated_flask' =
          [associated_flask EXCEPT ![column] =
              IF destination = "collect" THEN CollectionOf[ParentValve[column]]
              ELSE WasteOf[ParentValve[column]]]
    /\ mphase' = "executed"
    /\ UNCHANGED <<vol, pump_cmd, todo, mv, nsteps, pre>>
    /\ UNCHANGED nongvars

\* a single-valve transfer that books every cycle as it is pumped
TransferSingle_booking ==
    /\ mphase = "transfer"
    /\ Len(ValvesInPath(mv.path)) = 1
    /\ mv.rem > EMPTY
    /\ mv' = [mv EXCEPT !.rem = AfterCycle(mv.rem, PumpOf[ValvesInPath(mv.path)[1]]),
                        !.cycles = mv.cycles + 1,
                        !.aspirated = Append(mv.aspirated, VolToPump(mv.rem, PumpOf[ValvesInPath(mv.path)[1]]))]
    /\ vol' = UpdateNodeVolumes(vol, associated_flask, mv.source, mv.dest,
                                VolToPump(mv.rem, PumpOf[ValvesInPath(mv.path)[1]]))
    /\ UNCHANGED <<associated_flask, pump_cmd, todo, mphase, ninstr, nsteps, pre>>
    /\ UNCHANGED nongvars

\* move_single_valve: one turn of the while loop
TransferSingle ==
    /\ mphase = "transfer"
    /\ Len(ValvesInPath(mv.path)) = 1
    /\ mv.rem > EMPTY
    /\ mv' = [mv EXCEPT !.rem = AfterCycle(mv.rem, PumpOf[ValvesInPath(mv.path)[1]]),
                        !.cycles = mv.cycles + 1,
                        !.aspirated = Append(mv.aspirated, VolToPump(mv.rem, PumpOf[ValvesInPath(mv.path)[1]]))]
    /\ UNCHANGED <<vol, associated_flask, pump_cmd, todo, mphase, ninstr, nsteps, pre>>
    /\ UNCHANGED nongvars

\* move_multiple_valves: one turn of the while loop
TransferBeat ==
    /\ mphase = "transfer"
    /\ Len(ValvesInPath(mv.path)) > 1
    /\ ~mv.finished
    /\ LET pumps   == ChainPumps(ValvesInPath(mv.path))
           minimal == MinimalPumpVolume(pumps)
           old     == [k \in DOMAIN pumps |-> vol[pumps[k]]]
           new     == [k \in DOMAIN pumps |-> PumpAfterBeat(k, mv.beat, old, mv.rem, minimal)]
           volume  == VolumeAfterBeat(mv.beat, mv.rem, minimal)
           busy    == (\E k \in DOMAIN pumps : new[k] # 0) \/ volume # 0
       IN  /\ vol' = [n \in VolumeNodes |->
                        IF \E k \in DOMAIN pumps : pumps[k] = n
                        THEN new[CHOOSE k \in DOMAIN pumps : pumps[k] = n]
                        ELSE vol[n]]
           /\ mv' = [mv EXCEPT !.rem = volume,
                               !.beat = IF busy THEN mv.beat + 1 ELSE mv.beat,
                               !.finished = ~busy]
    /\ UNCHANGED <<associated_flask, pump_cmd, todo, mphase, ninstr, nsteps, pre>>
    /\ UNCHANGED nongvars

\* move(): a command of move_single_valve or move_multiple_valves raises
\* (the device does not answer, the serial line fails): the exception leaves
\* move() before update_node_volumes, then execute() and run_platform
TransferRaises ==
    /\ mphase = "transfer"
    /\ mphase' = "raised"
    /\ UNCHANGED <<vol, associated_flask, pump_cmd, todo, mv, ninstr, nsteps, pre>>
    /\ UNCHANGED nongvars

\* a move that books only what was in range
BookMove_in_range ==
    /\ mphase = "transfer"
    /\ \/ Len(ValvesInPath(mv.path)) = 1 /\ ~(mv.rem > EMPTY)
       \/ Len(ValvesInPath(mv.path)) > 1 /\ mv.finished
    /\ vol' = IF mv.warnings = {}
              THEN UpdateNodeVolumes(vol, associated_flask, mv.source, mv.dest, mv.volume)
              ELSE vol
    /\ mphase' = "moved"
    /\ UNCHANGED <<associated_flask, pump_cmd, todo, mv, ninstr, nsteps, pre>>
    /\ UNCHANGED nongvars

\* move(): the transfer is over, update_node_volumes books it
BookMove ==
    /\ mphase = "transfer"
    /\ \/ Len(ValvesInPath(mv.path)) = 1 /\ ~(mv.rem > EMPTY)
       \/ Len(ValvesInPath(mv.path)) > 1 /\ mv.finished
    /\ vol' = UpdateNodeVolumes(vol, associated_flask, mv.source, mv.dest, mv.volume)
    /\ mphase' = "moved"
    /\ UNCHANGED <<associated_flask, pump_cmd, todo, mv, ninstr, nsteps, pre>>
    /\ UNCHANGED nongvars

\* move() returns to MOVE, or to prime_tubes or clean_all after their last
\* move: the instruction is over
InstructionEnds ==
    /\ mphase = "moved"
    /\ todo = <<>>
    /\ pump_cmd.stage = "-"
    /\ mphase' = "executed"
    /\ mv' = NoMove
    /\ pump_cmd' = NoOp
    /\ UNCHANGED <<vol, associated_flask, todo, ninstr, nsteps, pre>>
    /\ UNCHANGED nongvars

\* move() returns to prime_tubes or clean_all, which make their next move
NextMove ==
    /\ mphase = "moved"
    /\ pump_cmd.opcode \in {"PRIME", "CLEAN"}
    /\ todo # <<>>
    /\ BeginMove(Head(todo).source, Head(todo).dest, Head(todo).volume)
    /\ todo' = Tail(todo)
    /\ UNCHANGED <<vol, associated_flask, pump_cmd, ninstr, nsteps>>
    /\ UNCHANGED nongvars

\* separate_phases: a withdrawal of step_size, after the priming or after a
\* reading below the threshold
SeparateStep ==
    /\ mphase = "moved"
    /\ pump_cmd.stage = "step"
    /\ nsteps < MaxSepSteps
    /\ nsteps' = nsteps + 1
    /\ BeginMove("flask_separator_bottom", pump_cmd.a1, SeparationStepSize)
    /\ UNCHANGED <<vol, associated_flask, pump_cmd, todo, ninstr>>
    /\ UNCHANGED nongvars

\* separate_phases: the loop is left (simulation, or the phase has changed);
\* the upper phase stays, or the dead volume is withdrawn
SeparatePhaseChanged ==
    /\ mphase = "moved"
    /\ pump_cmd.stage = "step"
    /\ nsteps > 0
    /\ IF pump_cmd.a2 = "flask_separator_top"
       THEN /\ mphase' = "executed"
            /\ mv' = NoMove
            /\ pump_cmd' = NoOp
            /\ UNCHANGED pre
       ELSE /\ BeginMove("flask_separator_bottom", pump_cmd.a1, SEPARATION_DEAD_VOLUME)
            /\ pump_cmd' = [pump_cmd EXCEPT !.stage = "upper"]
    /\ UNCHANGED <<vol, associated_flask, todo, ninstr, nsteps>>
    /\ UNCHANGED nongvars

\* separate_phases: what is left in the separator goes to the upper phase target
SeparateUpper ==
    /\ mphase = "moved"
    /\ pump_cmd.stage = "upper"
    /\ BeginMove("flask_separator_bottom", pump_cmd.a2,
                 GetCurrentNodeVolume(vol, associated_flask, "flask_separator_bottom"))
    /\ pump_cmd' = [pump_cmd EXCEPT !.stage = "-"]
    /\ UNCHANGED <<vol, associated_flask, todo, ninstr, nsteps>>
    /\ UNCHANGED nongvars

\* rebuild_graph on a freshly loaded graph: a node the file does not hold
\* keeps its loaded value, and so does a key whose saved value is false in
\* Python (None, 0, 0.0)
RebuildGraph(loaded, graph_data) ==
    [n \in DOMAIN loaded |->
        IF n \in DOMAIN graph_data /\ graph_data[n] # 0 THEN graph_data[n] ELSE loaded[n]]

\* run_platform after execute(cmd): dump_graph writes the current_volume of
\* every node that is neither a pump nor a valve
DumpGraph ==
    /\ mphase = "executed"
    /\ mphase' = "idle"
    /\ crash_dump' = [exists |-> TRUE,
                      data |-> [n \in {m \in VolumeNodes : Class[m] \notin {"chemputer_pump", "chemputer_valve"}} |-> vol[n]]]
    /\ dumped' = [n \in Vessels |-> vol[n]]
    /\ UNCHANGED <<vol, associated_flask, pump_cmd, todo, mv, ninstr, nsteps, pre>>
    /\ UNCHANGED rebuilt
    /\ UNCHANGED <<dvars, avars, brigade, pvars, cvars, xvars>>

\* Chempiler.__init__ with crash_dump: setup_platform loads the graph, and
\* rebuild_graph reads the file the last run has left
Restart ==
    /\ mphase = "idle"
    /\ crash_dump.exists
    /\ rebuilt' = [done |-> TRUE, node |-> RebuildGraph(LoadedVolume, crash_dump.data),
                    snapshot |-> dumped]
    /\ UNCHANGED <<crash_dump, dumped>>
    /\ UNCHANGED <<gvars, dvars, avars, brigade, pvars, cvars, xvars>>

InitVolume ==
    /\ DispatchAtRest
    /\ ActorAtRest
    /\ GraphAtRest
    /\ brigade = NoBrigade
    /\ DevicesAtRest
    /\ CompilerAtRest
    /\ SnapshotAtRest
    /\ wait = NoWait
    /\ conn = NoCall
    /\ rig = NoRig
    /\ found = NoSetup
    /\ race = NoRace

NextVolume ==
    \/ \E p \in MovePairs, v \in ScriptVolumes : StartMove(p[1], p[2], v)
    \/ \E p \in MovePairs : StartMoveAll(p[1], p[2])
    \/ StartPrime
    \/ \E source \in CleanSources, v \in ScriptVolumes : StartClean(source, v)
    \/ \E p \in SeparatePairs : StartSeparate(p[1], p[2])
    \/ \E p \in ColumnSwitches : SwitchColumn(p[1], p[2])
    \/ TransferSingle
    \/ TransferBeat
    \/ TransferRaises
    \/ BookMove
    \/ InstructionEnds
    \/ NextMove
    \/ SeparateStep
    \/ SeparatePhaseChanged
    \/ SeparateUpper
    \/ DumpGraph
    \/ Restart

SpecVolume == InitVolume /\ [][NextVolume]_vars

(***************************************************************************)
(* Properties of the pump executor                                         *)
(***************************************************************************)
\* update_node_volumes: the flask booked together with node n, if any
Partner(a, n) == IF ParentFlask[n] # None THEN ParentFlask[n] ELSE a[n]

\* a move has just been booked between two different nodes that are not the
\* two ends of one special device
MoveBooked ==
    /\ mphase = "moved"
    /\ mv.source # mv.dest
    /\ Partner(associated_flask, mv.source) # mv.dest
    /\ Partner(associated_flask, mv.dest) # mv.source

\* C9 as stated: after a move of v from A to B the current volume of A
\* (read on the associated flask for a special device) is lower by exactly
\* v, that of B is higher by exactly v, and neither is negative, for every v.
C9_ExactTransfer ==
    MoveBooked =>
        /\ GetCurrentNodeVolume(vol, associated_flask, mv.source)
              = GetCurrentNodeVolume(pre, associated_flask, mv.source) - mv.volume
        /\ GetCurrentNodeVolume(vol, associated_flask, mv.dest)
              = GetCurrentNodeVolume(pre, associated_flask, mv.dest) + mv.volume
        /\ GetCurrentNodeVolume(vol, associated_flask, mv.source) >= 0
        /\ GetCurrentNodeVolume(vol, associated_flask, mv.dest) >= 0

\* C9, amended: after a move of v from A to B (A and B different and not
\* the two ends of one special device) the volume of A is lower by exactly v
\* when v does not exceed it and is 0 otherwise, the flask booked with A
\* holds the same volume as A, the volume of B and of the flask booked with
\* B are higher by exactly v, A is never negative, and B is not negative
\* when v is not negative and B was not negative before.
C9_ClampedTransfer ==
    MoveBooked =>
        /\ vol[mv.source] = IF pre[mv.source] - mv.volume < 0 THEN 0 ELSE pre[mv.source] - mv.volume
        /\ Partner(associated_flask, mv.source) # None
              => vol[Partner(associated_flask, mv.source)] = vol[mv.source]
        /\ vol[mv.dest] = pre[mv.dest] + mv.volume
        /\ Partner(associated_flask, mv.dest) # None
              => vol[Partner(associated_flask, mv.dest)] = pre[Partner(associated_flask, mv.dest)] + mv.volume
        /\ vol[mv.source] >= 0
        /\ (mv.volume >= 0 /\ pre[mv.dest] >= 0) => vol[mv.dest] >= 0

\* a move of more than the source held has been booked: the source is empty
\* and the destination has gained the whole volume
C9_Witness ==
    /\ MoveBooked
    /\ mv.volume > pre[mv.source]
    /\ pre[mv.source] > 0
    /\ vol[mv.source] = 0
    /\ vol[mv.dest] = pre[mv.dest] + mv.volume

\* the two ends of the move and the flasks booked with them
MoveEnds ==
    {mv.source, mv.dest, Partner(associated_flask, mv.source), Partner(associated_flask, mv.dest)} \ {None}

\* C27: from the start of a move until its physical transfer is over the
\* current volumes of the source, of the destination and of the flasks
\* booked with them are what they were when the move began, and they stay
\* so if the transfer raises.
C27_VolumesHeldDuringTransfer ==
    mphase \in {"transfer", "raised"} => \A n \in MoveEnds : vol[n] = pre[n]

\* a transfer has raised after a cycle of its pump
C27_Witness ==
    /\ mphase = "raised"
    /\ mv.volume > 0
    /\ mv.cycles > 0
    /\ \A n \in MoveEnds : vol[n] = pre[n]

RECURSIVE SeqSum(_)
SeqSum(q) == IF q = <<>> THEN 0 ELSE Head(q) + SeqSum(Tail(q))

\* the physical transfer of a move has pumped the whole requested volume:
\* the cycles of the single pump add up to it, or the chain has drawn all of
\* it and every pump of the chain is empty again
TransferredInFull ==
    IF Len(ValvesInPath(mv.path)) = 1
    THEN SeqSum(mv.aspirated) = mv.volume
    ELSE /\ mv.finished
         /\ mv.rem = 0
         /\ \A k \in DOMAIN ChainPumps(ValvesInPath(mv.path)) : pre[ChainPumps(ValvesInPath(mv.path))[k]] = 0
                => vol[ChainPumps(ValvesInPath(mv.path))[k]] = 0

\* C28: a move of more than the source holds or than the destination has
\* room for is not rejected: its transfer goes on until the whole requested
\* volume is pumped, and update_node_volumes then books the requested
\* volume as it does for a move in range.  (The volume is one that can be
\* pumped, that is, positive.)
C28_OverRangeMoveRuns ==
    (mv.warnings # {} /\ mv.volume > 0) =>
        /\ mphase = "transfer" => ENABLED (TransferSingle \/ TransferBeat \/ BookMove)
        /\ mphase = "moved" =>
              /\ TransferredInFull
              /\ \A n \in Vessels :
                    vol[n] = UpdateNodeVolumes(pre, associated_flask, mv.source, mv.dest, mv.volume)[n]

\* a move of more than the source held into a destination without room for
\* it has been pumped and booked
C28_Witness ==
    /\ mphase = "moved"
    /\ mv.warnings = {"withdraws", "overfills"}
    /\ mv.cycles > 0
    /\ vol[mv.dest] = pre[mv.dest] + mv.volume
    /\ vol[mv.dest] > MaxVolume[mv.dest]

\* C10: the current volume of every node (vessel, special device,
\* associated flask, pump) is greater than or equal to 0 in every reachable
\* state.
C10_VolumesNonNegative == \A n \in VolumeNodes : vol[n] >= 0

\* constants.py: SPECIAL_DEVICES
SPECIAL_DEVICES == {"chemputer_filter", "chemputer_separator", "chemputer_rotavap", "chemputer_column"}

\* C11: the current volume of each special device equals that of the flask
\* it is associated with, and each flask with a parent reference holds the
\* volume of its parent, after any sequence of transfers and column switches
\* (the two are equal on the rig as loaded).
C11_LockStep ==
    \A n \in Vessels :
        /\ (Class[n] \in SPECIAL_DEVICES /\ associated_flask[n] # None)
              => vol[n] = vol[associated_flask[n]]
        /\ ParentFlask[n] # None => vol[n] = vol[ParentFlask[n]]

\* the smallest number of syringes of capacity c that hold v
CeilDiv(v, c) == (v + c - 1) \div c

\* the while loop of move_single_valve has been left
SingleValveOver ==
    /\ mphase \in {"transfer", "moved"}
    /\ Len(ValvesInPath(mv.path)) = 1
    /\ ~(mv.rem > EMPTY)

Chains == UNION { [1..n -> 1..MaxCapacity] : n \in 2..MaxChain }

InitBrigade ==
    /\ DispatchAtRest
    /\ ActorAtRest
    /\ GraphAtRest
    /\ DevicesAtRest
    /\ CompilerAtRest
    /\ SnapshotAtRest
    /\ wait = NoWait
    /\ conn = NoCall
    /\ rig = NoRig
    /\ found = NoSetup
    /\ race = NoRace
    /\ \E c \in Chains, v \in 0..MaxBrigadeVolume :
          brigade = [max_volume |-> c, current_volume |-> [k \in DOMAIN c |-> 0], total |-> v,
                     volume |-> v, i |-> 0, busy |-> TRUE, volume_to_pump |-> 0, left |-> v,
                     delivered |-> 0, beat |-> -1, valves |-> [k \in DOMAIN c |-> "-"],
                     switched |-> FALSE, ready |-> {}]

\* beat i is one on which the pump at chain position k empties
OutputBeat(k, i) == (i % 2 = 1) # ((k - 1) % 2 = 1)

\* a chain whose valves all follow the parity of the beat alone
SwitchValves_together(i, n) == [k \in 1..n |-> IF i % 2 = 1 THEN "OUTPUT" ELSE "INPUT"]

\* beat i, "switch all the valves": the port each of the n valves of the
\* chain is sent to (position k of the model is j = k - 1 of enumerate)
SwitchValves(i, n) ==
    [k \in 1..n |-> IF (i % 2 = 1) # ((k - 1) % 2 = 1) THEN "OUTPUT" ELSE "INPUT"]

\* connection_dict[valve]: what the valve at chain position k of n is
\* joined to through its INPUT port and through its OUTPUT port: the source
\* or the valve before it, the destination or the valve after it
ConnectionDict(k, n) ==
    [INPUT  |-> IF k = 1 THEN <<"source", 0>> ELSE <<"valve", k - 1>>,
     OUTPUT |-> IF k = n THEN <<"dest", 0>> ELSE <<"valve", k + 1>>]

\* the top of a turn of the while loop, "switch all the valves": every
\* valve of the chain is sent to its port of the beat (move_to_position).
\* History: beat is the number of the turn entered last and valves the
\* ports of that turn.
SwitchAll ==
    /\ brigade.busy
    /\ ~brigade.switched
    /\ brigade' = [brigade EXCEPT
                      !.beat = brigade.i,
                      !.valves = SwitchValves(brigade.i, Len(brigade.max_volume)),
                      !.switched = TRUE,
                      !.ready = {}]
    /\ UNCHANGED <<dvars, avars, gvars, pvars, cvars, svars, xvars>>

\* the valve at chain position k answers DONE for the port of this beat
ValveReady(k) ==
    /\ brigade.switched
    /\ k \in DOMAIN brigade.valves
    /\ k \notin brigade.ready
    /\ brigade' = [brigade EXCEPT !.ready = @ \cup {k}]
    /\ UNCHANGED <<dvars, avars, gvars, pvars, cvars, svars, xvars>>

\* a loop that does not wait for its valves
ValvesReady_unawaited(b) == TRUE

\* "for valve in valves: valve_object.wait_until_ready()" has returned for
\* every valve of the chain
ValvesReady(b) == b.ready = DOMAIN b.valves

\* the rest of the turn: the valves have all reported ready, the pumps move
\* last to first, and the loop is left when nothing is held and nothing
\* remains.  History: volume_to_pump and left record what the first pump
\* aspirated and out of how much; delivered adds up what the last pump
\* pushes out.
BrigadeBeat ==
    /\ brigade.busy
    /\ brigade.switched
    /\ ValvesReady(brigade)
    /\ LET n       == Len(brigade.max_volume)
           minimal == SeqMin(brigade.max_volume)
           old     == brigade.current_volume
           new     == [k \in 1..n |-> PumpAfterBeat(k, brigade.i, old, brigade.volume, minimal)]
           volume  == VolumeAfterBeat(brigade.i, brigade.volume, minimal)
           busy    == (\E k \in 1..n : new[k] # 0) \/ volume # 0
       IN  brigade' = [brigade EXCEPT
                          !.current_volume = new,
                          !.volume = volume,
                          !.i = IF busy THEN brigade.i + 1 ELSE brigade.i,
                          !.busy = busy,
                          !.volume_to_pump = IF brigade.i % 2 = 0
                                             THEN VolumeToPump(brigade.volume, minimal)
                                             ELSE brigade.volume_to_pump,
                          !.left = IF brigade.i % 2 = 0 THEN brigade.volume ELSE brigade.left,
                          !.delivered = IF OutputBeat(n, brigade.i)
                                        THEN brigade.delivered + old[n]
                                        ELSE brigade.delivered,
                          !.switched = FALSE]
    /\ UNCHANGED <<dvars, avars, gvars, pvars, cvars, svars, xvars>>

NextBrigade ==
    \/ SwitchAll
    \/ \E k \in 1..MaxChain : ValveReady(k)
    \/ BrigadeBeat

\* the loop runs on a thread of its own and is not held up, and a valve
\* that has been sent to a port answers: a step that can be made is made
SpecBrigade == InitBrigade /\ [][NextBrigade]_vars /\ WF_vars(NextBrigade)

\* the largest beat number a transfer of v through n pumps reaches
LastBeat(v, minimal, n) == IF v = 0 THEN 0 ELSE 2 * (CeilDiv(v, minimal) - 1) + n

\* the loop has been left
BrigadeOver == brigade.max_volume # <<>> /\ ~brigade.busy

\* the beats are bounded, and at exit the last pump has pushed out exactly
\* v, every pump holds 0 and nothing remains to be taken
BrigadeBounded ==
    brigade.max_volume # <<>> =>
        /\ brigade.i <= LastBeat(brigade.total, SeqMin(brigade.max_volume), Len(brigade.max_volume))
        /\ BrigadeOver =>
              /\ brigade.delivered = brigade.total
              /\ \A k \in DOMAIN brigade.current_volume : brigade.current_volume[k] = 0
              /\ brigade.volume = 0

\* C13: for every chain of two or more pumps, every choice of capacities and
\* every volume v >= 0 the bucket brigade ends after a bounded number of
\* beats, the last pump has then pushed exactly v into the destination, every
\* pump of the chain holds 0 and no volume remains to be taken.
C13_BrigadeDelivers == []BrigadeBounded /\ <>BrigadeOver

\* two pumps of capacities c1 and c2 have moved v = c1 + c2
C13_Witness ==
    /\ BrigadeOver
    /\ Len(brigade.max_volume) = 2
    /\ brigade.total = brigade.max_volume[1] + brigade.max_volume[2]
    /\ brigade.max_volume[1] # brigade.max_volume[2]
    /\ brigade.delivered = brigade.total
    /\ brigade.i > 2

\* C14: at the end of every beat the volume recorded for each pump of the
\* chain is at most the smallest capacity of the chain, hence at most the
\* capacity of that pump, and the first pump never aspirates more than the
\* smaller of that cap and the volume that remained to be taken.
C14_InFlightBounded ==
    brigade.max_volume # <<>> =>
        /\ \A k \in DOMAIN brigade.current_volume :
              /\ brigade.current_volume[k] <= SeqMin(brigade.max_volume)
              /\ brigade.current_volume[k] <= brigade.max_volume[k]
        /\ brigade.volume_to_pump <= SeqMin(brigade.max_volume)
        /\ brigade.volume_to_pump <= brigade.left

\* a pump larger than the smallest of the chain holds a full chunk that
\* was capped by the smallest capacity, not by what remained
C14_Witness ==
    /\ brigade.max_volume # <<>>
    /\ \E k \in DOMAIN brigade.current_volume :
          /\ k > 1
          /\ brigade.current_volume[k] = SeqMin(brigade.max_volume)
          /\ brigade.max_volume[k] > SeqMin(brigade.max_volume)
    /\ brigade.total > SeqMin(brigade.max_volume)
    /\ brigade.volume_to_pump = SeqMin(brigade.max_volume)

\* C29: on beat i (from 0) the valve at chain position j (from 0) is sent
\* to its output port exactly when one of i and j is odd and the other
\* even, and to its input port otherwise, for every beat and every valve.
C29_ValvesAlternate ==
    brigade.beat >= 0 =>
        \A k \in DOMAIN brigade.valves :
            /\ brigade.valves[k] \in {"INPUT", "OUTPUT"}
            /\ brigade.valves[k] = "OUTPUT" <=> (brigade.beat + (k - 1)) % 2 = 1

\* an odd beat of a chain of three: the valve in the middle is on its
\* input, its neighbours on their outputs
C29_Witness ==
    /\ Len(brigade.max_volume) = 3
    /\ brigade.beat = 1
    /\ brigade.valves = <<"OUTPUT", "INPUT", "OUTPUT">>

\* what is left in the source, what the chain holds and what has reached
\* the destination add up to the volume asked for
Conserved == brigade.volume + SeqSum(brigade.current_volume) + brigade.delivered = brigade.total

\* the step is the part of a beat in which the pumps move
PumpsMove == brigade.switched /\ ~brigade'.switched

\* C30: on every beat a stage other than the first that is on its intake
\* parity ends the beat with the volume the stage before it held when the
\* beat began, the stage before it ends the beat empty, and at the end of
\* the beat source + chain + delivered is the volume asked for.
C30_StagesHandOver ==
    [][ PumpsMove =>
        /\ \A k \in 2..Len(brigade.max_volume) :
             ~OutputBeat(k, brigade.i) =>
                 /\ brigade'.current_volume[k] = brigade.current_volume[k - 1]
                 /\ brigade'.current_volume[k - 1] = 0
        /\ Conserved' ]_vars

\* a stage in the middle of a chain of three holds what the first pump
\* aspirated, the first pump is empty, and part of the volume has arrived
C30_Witness ==
    /\ Len(brigade.max_volume) = 3
    /\ brigade.beat >= 3
    /\ brigade.current_volume[2] > 0
    /\ brigade.current_volume[1] = 0
    /\ brigade.delivered > 0
    /\ brigade.volume > 0
    /\ Conserved

\* C38: when the pumps of a beat move, every valve of the chain has
\* reported ready for that beat, and for every stage that empties toward
\* the next one the valve of the stage is at its port toward the next
\* valve, the next valve is at its port toward the valve of the stage, and
\* the next stage is on its intake parity.
C38_ValvesSetBeforePumps ==
    [][ PumpsMove =>
        /\ brigade.ready = DOMAIN brigade.valves
        /\ \A k \in 1..(Len(brigade.max_volume) - 1) :
             (brigade.current_volume[k] # 0 /\ brigade'.current_volume[k] = 0) =>
                 /\ ConnectionDict(k, Len(brigade.max_volume))[brigade.valves[k]] = <<"valve", k + 1>>
                 /\ ConnectionDict(k + 1, Len(brigade.max_volume))[brigade.valves[k + 1]] = <<"valve", k>>
                 /\ ~OutputBeat(k + 1, brigade.beat) ]_vars

\* the pumps of beat 2 of a chain of three have moved: the stage in the
\* middle has emptied into the last one through valves that had all
\* reported ready
C38_Witness ==
    /\ Len(brigade.max_volume) = 3
    /\ brigade.beat = 2
    /\ ~brigade.switched
    /\ brigade.ready = {1, 2, 3}
    /\ brigade.valves = <<"INPUT", "OUTPUT", "INPUT">>
    /\ brigade.current_volume[2] = 0
    /\ brigade.current_volume[3] > 0

(***************************************************************************)
(* Properties of the dispatcher: errors                                    *)
(***************************************************************************)
\* a MOVE between nodes without a path, or naming a node the graph lacks
Routeless(c) == c.opcode = "MOVE" /\ ~c.path

\* the instruction dispatched last
LastDispatched == script[dispatched[Len(dispatched)]]

\* C15: a MOVE that names nodes without a path between them, or a node that
\* is not in the topology, adds no task to the in-flight set and does not
\* stop the run: the instructions after it are still executed.
C15_RoutelessMoveSkipped ==
    /\ \A i \in DOMAIN script : Routeless(script[i]) => task[i] = "unborn"
    /\ (dispatched # <<>> /\ Routeless(LastDispatched)) => pc \notin {"Unwind", "Ended"}

(***************************************************************************)
(* Properties of the device actor: errors                                  *)
(***************************************************************************)
\* the request of caller t is in the command queue, is being executed by
\* the worker, or has been answered
Pending(t) ==
    \/ \E i \in DOMAIN dev_command_queue : dev_command_queue[i].by = t
    \/ th[Worker].pc \in {"method", "io"} /\ th[Worker].fn = th[t].fn /\ th[Worker].arg = th[t].arg
    \/ reply_queue # <<>>

\* C16: a command called with an out-of-range argument surfaces the error to
\* the caller: the calling thread does not stay blocked waiting for a reply
\* that nobody will send.
C16_RejectedCallReturns ==
    \A t \in Callers :
        (th[t].pc = "waiting" /\ ArgumentRejected(th[t].fn, th[t].arg)) => Pending(t)

(***************************************************************************)
(* The pumps and valves: ChemputerDevice over TCP.  One thread drives a    *)
(* valve and a pump through one cycle of move_single_valve; each device    *)
(* has a response thread that sets device_ready_flag on DONE.              *)
(***************************************************************************)
\* PumpExecutioner.home (move_to_home is a send_command that nothing waits
\* for), then move_single_valve, one turn of the loop (lines 277-291): each
\* move_to_position / move_absolute is a send_command, each followed by
\* wait_until_ready
Steps ==
    << [dev |-> "pump",  call |-> "send_command"],
       [dev |-> "valve", call |-> "send_command"], [dev |-> "valve", call |-> "wait_until_ready"],
       [dev |-> "pump",  call |-> "send_command"], [dev |-> "pump",  call |-> "wait_until_ready"],
       [dev |-> "valve", call |-> "send_command"], [dev |-> "valve", call |-> "wait_until_ready"],
       [dev |-> "pump",  call |-> "send_command"], [dev |-> "pump",  call |-> "wait_until_ready"] >>

\* what can happen to a connection: the peer resets it (send and recv raise
\* ConnectionResetError), it breaks otherwise (send raises another OSError),
\* or the device falls silent (send succeeds, nothing comes back)
Faults == {"reset", "broken", "silent"}

\* the next position of the driving thread
Advance(u) == IF u.step = Len(Steps) THEN [pc |-> "returned", step |-> u.step] ELSE [u EXCEPT !.step = u.step + 1]

InitDevice ==
    /\ DispatchAtRest
    /\ ActorAtRest
    /\ GraphAtRest
    /\ brigade = NoBrigade
    /\ tcp = [d \in Devices |-> "up"]
    /\ device_ready_flag = [d \in Devices |-> FALSE]
    /\ tcp_response_thread = [d \in Devices |-> "listening"]
    /\ executing = [d \in Devices |-> <<>>]
    /\ \E first \in {1, 2} : user = [pc |-> "run", step |-> first]
    /\ CompilerAtRest
    /\ SnapshotAtRest
    /\ wait = NoWait
    /\ conn = NoCall
    /\ rig = NoRig
    /\ found = NoSetup
    /\ race = NoRace

\* ChemputerDevice.send_command: the flag is cleared, the command is sent;
\* ConnectionResetError is logged and swallowed, any other error leaves
\* the function
SendCommand ==
    /\ user.pc = "run"
    /\ Steps[user.step].call = "send_command"
    /\ LET d == Steps[user.step].dev IN
        /\ device_ready_flag' = [device_ready_flag EXCEPT ![d] = FALSE]
        /\ executing' = [executing EXCEPT ![d] = IF tcp[d] = "up" THEN Append(@, user.step) ELSE <<>>]
        /\ user' = IF tcp[d] = "broken" THEN [user EXCEPT !.pc = "raised"] ELSE Advance(user)
    /\ UNCHANGED <<tcp, tcp_response_thread>>
    /\ UNCHANGED <<dvars, avars, gvars, brigade, cvars, svars, xvars>>

\* ChemputerDevice.wait_until_ready: device_ready_flag.wait() returns
WaitUntilReady ==
    /\ user.pc = "run"
    /\ Steps[user.step].call = "wait_until_ready"
    /\ device_ready_flag[Steps[user.step].dev]
    /\ user' = Advance(user)
    /\ UNCHANGED <<tcp, device_ready_flag, tcp_response_thread, executing>>
    /\ UNCHANGED <<dvars, avars, gvars, brigade, cvars, svars, xvars>>

\* ChemputerDevice.receive_response: recv returns the DONE of the device
\* for the oldest command it has not answered
ReceiveDone(d) ==
    /\ tcp[d] = "up"
    /\ tcp_response_thread[d] = "listening"
    /\ executing[d] # <<>>
    /\ executing' = [executing EXCEPT ![d] = Tail(@)]
    /\ device_ready_flag' = [device_ready_flag EXCEPT ![d] = TRUE]
    /\ UNCHANGED <<tcp, tcp_response_thread, user>>
    /\ UNCHANGED <<dvars, avars, gvars, brigade, cvars, svars, xvars>>

\* the connection of device d is lost
ConnectionLost(d, f) ==
    /\ tcp[d] = "up"
    /\ user.pc = "run"
    /\ tcp' = [tcp EXCEPT ![d] = f]
    /\ UNCHANGED <<device_ready_flag, tcp_response_thread, executing, user>>
    /\ UNCHANGED <<dvars, avars, gvars, brigade, cvars, svars, xvars>>

\* ChemputerDevice.receive_response: recv raises (TimeoutError or
\* ConnectionResetError are logged and the loop is left; any other error
\* ends the thread as well)
ReceiveFails(d) ==
    /\ tcp[d] # "up"
    /\ tcp_response_thread[d] = "listening"
    /\ tcp_response_thread' = [tcp_response_thread EXCEPT ![d] = "ended"]
    /\ UNCHANGED <<tcp, device_ready_flag, executing, user>>
    /\ UNCHANGED <<dvars, avars, gvars, brigade, cvars, svars, xvars>>

NextDevice ==
    \/ SendCommand
    \/ WaitUntilReady
    \/ \E d \in Devices : ReceiveDone(d)
    \/ \E d \in Devices, f \in Faults : ConnectionLost(d, f)
    \/ \E d \in Devices : ReceiveFails(d)

SpecDevice == InitDevice /\ [][NextDevice]_vars

\* the driving thread waits for a flag that nothing can set any more: the
\* flag is clear and the response thread of the device has ended
BlockedForEver ==
    /\ user.pc = "run"
    /\ Steps[user.step].call = "wait_until_ready"
    /\ ~device_ready_flag[Steps[user.step].dev]
    /\ tcp_response_thread[Steps[user.step].dev] = "ended"

\* C17: a device-level fault (lost connection, reset, read timeout) during
\* an instruction propagates and ends the run: the thread that executes the
\* instruction is never left waiting for ever for the lost device.
C17_FaultEndsRun == ~BlockedForEver

\* C39: wait_until_ready() that follows send_command(c) returns only when
\* the device has answered DONE for c, in every interleaving of the driving
\* thread and the response threads.
C39_ReadyIsForLastCommand ==
    [][ (user.pc = "run" /\ Steps[user.step].call = "wait_until_ready" /\ user' # user) =>
            (user.step - 1) \notin Range(executing[Steps[user.step].dev]) ]_vars

(***************************************************************************)
(* The script compiler (tools/parsing/ChASM_parser.py).  The parser is     *)
(* bottom-up: an action is one reduction (or the opening of a block), in   *)
(* the order of the script.  Instruction lists are Python lists, and a     *)
(* body is a list of references to them: heap[i] is the list with the      *)
(* identity i, a body is a sequence of identities.                         *)
(***************************************************************************)

\* the steps of one parse
MaxParse == 7

\* the largest count of a FOR
MaxLoop == 2

\* the blocks that are open at a time
MaxDepth == 3

\* the argument lists of the macro definitions, of the macro calls and of
\* the instructions of the scripts
FormalLists == {<<"x">>, <<"x", "y">>}

ActualLists == {<<>>, <<"5">>, <<"7">>, <<"y", "5">>, <<"7", "5">>}

InstrArgLists == {<<"5">>, <<"x">>, <<"x", "y">>}

\* the names DEF name = value assigns, and the values
AssignedWords == {"x"}

\* the NUMBER tokens of the FOR counts, and int() of them
Numerals == <<"0", "1", "2", "3", "4">>

ForCounts == {Numerals[n + 1] : n \in 0..MaxLoop}

int(numeral) == CHOOSE n \in 0..(Len(Numerals) - 1) : Numerals[n + 1] = numeral

\* p_variable: the value of the word if the table holds it, else the word
Variable(w) == IF w \in DOMAIN variables /\ variables[w] # Unset THEN variables[w] ELSE w

\* p_arg: a NUMBER as it is, a WORD through p_variable
Arg(a) == IF a \in NUMBERS THEN a ELSE Variable(a)

\* p_arg_list
ArgList(l) == [i \in DOMAIN l |-> Arg(l[i])]

\* a block the parser has open
Block(kind, func_name, arg_list, iterator) ==
    [kind |-> kind, func_name |-> func_name, arg_list |-> arg_list,
     iterator |-> iterator, body |-> <<>>, items |-> 0, base |-> Len(heap)]

\* p_body: the instruction list of an item is appended to the body of the
\* innermost open block
BodyPlus(st, l) ==
    [st EXCEPT ![Len(st)] = [@ EXCEPT !.body = @ \o l, !.items = 1]]

\* the instruction lists a body refers to
Contents(h, body) == [i \in DOMAIN body |-> h[body[i]]]

\* one more step of the parser
Reduce ==
    /\ perr = "-"
    /\ ~returned
    /\ nparse < MaxParse
    /\ nparse' = nparse + 1

\* p_assign_var, then p_script: variables[p[2]] = p[4], where p[2] and p[4]
\* have been through p_variable; the value of the script becomes [] (the
\* sum with None raises TypeError, which p_script passes over)
AssignVar(w, v) ==
    /\ Reduce
    /\ stack = <<>>
    /\ variables' = [variables EXCEPT ![Variable(w)] = Arg(v)]
    /\ parsed' = <<>>
    /\ defs' = [defs EXCEPT ![w] = v]
    /\ UNCHANGED <<functions, heap, stack, perr, calls, loops>>
    /\ UNCHANGED <<refs, mains, skipped, returned>>
    /\ UNCHANGED <<dvars, avars, gvars, brigade, pvars, svars, xvars>>

\* MAIN {
OpenMain ==
    /\ Reduce
    /\ stack = <<>>
    /\ stack' = <<Block("MAIN", None, <<>>, 0)>>
    /\ UNCHANGED <<variables, functions, heap, parsed, perr, calls, loops>>
    /\ UNCHANGED <<defs, refs, mains, skipped, returned>>
    /\ UNCHANGED <<dvars, avars, gvars, brigade, pvars, svars, xvars>>

\* DEF name(arg_list) {: the name and the formal parameters are reduced by
\* p_variable and p_arg_list before the body is parsed
OpenDef(name, formals) ==
    /\ Reduce
    /\ stack = <<>>
    /\ stack' = <<Block("DEF", Variable(name), ArgList(formals), 0)>>
    /\ UNCHANGED <<variables, functions, heap, parsed, perr, calls, loops>>
    /\ UNCHANGED <<defs, refs, mains, skipped, returned>>
    /\ UNCHANGED <<dvars, avars, gvars, brigade, pvars, svars, xvars>>

\* FOR(n) {
OpenFor(n) ==
    /\ Reduce
    /\ stack # <<>>
    /\ Len(stack) < MaxDepth
    /\ stack' = Append(stack, Block("FOR", None, <<>>, int(n)))
    /\ UNCHANGED <<variables, functions, heap, parsed, perr, calls, loops>>
    /\ UNCHANGED <<defs, refs, mains, skipped, returned>>
    /\ UNCHANGED <<dvars, avars, gvars, brigade, pvars, svars, xvars>>

\* p_instruction: a new list [mode, opcode] + arg_list
Instruction(mode, opcode, args) ==
    /\ Reduce
    /\ stack # <<>>
    /\ heap' = Append(heap, <<mode, opcode>> \o ArgList(args))
    /\ stack' = BodyPlus(stack, <<Len(heap) + 1>>)
    /\ refs' = refs \cup {[word |-> args[i], got |-> Arg(args[i]), latest |-> defs[args[i]]] :
                              i \in {k \in DOMAIN args : args[k] \in WORDS}}
    /\ UNCHANGED <<variables, functions, parsed, perr, calls, loops>>
    /\ UNCHANGED <<defs, mains, skipped, returned>>
    /\ UNCHANGED <<dvars, avars, gvars, brigade, pvars, svars, xvars>>

\* dict(zip(required_args, arg_list)): the pairs up to the shorter list,
\* the last pair of a name wins
ArgMapper(required_args, arg_list) ==
    LET n == IF Len(required_args) < Len(arg_list) THEN Len(required_args) ELSE Len(arg_list)
        Last(k) == CHOOSE i \in 1..n : required_args[i] = k /\ \A j \in 1..n : required_args[j] = k => j <= i
    IN [k \in {required_args[i] : i \in 1..n} |-> arg_list[Last(k)]]

\* deepcopy(body): every list the body refers to is copied once, and the
\* copy of the body refers to the copies (a list the body holds twice is
\* one list in the copy as well)
DeepCopy(h, body) ==
    LET olds == {body[i] : i \in DOMAIN body}
        Rank(o) == Cardinality({q \in olds : q <= o})
        Old(k) == CHOOSE o \in olds : Rank(o) = k
    IN [heap |-> h \o [k \in 1..Cardinality(olds) |-> h[Old(k)]],
        body |-> [i \in DOMAIN body |-> Len(h) + Rank(body[i])]]

\* the loops of p_function over the body and over the positions of each
\* instruction: a string that is a formal parameter is replaced by
\* arg_mapper[string], which raises KeyError if the mapper lacks it
RECURSIVE Substitute(_, _, _, _, _)
Substitute(h, body, i, required_args, arg_mapper) ==
    IF i > Len(body) THEN [heap |-> h, raised |-> FALSE]
    ELSE LET instruction == h[body[i]]
             Formal(p) == \E j \in DOMAIN required_args : required_args[j] = instruction[p]
         IN IF \E p \in DOMAIN instruction : Formal(p) /\ instruction[p] \notin DOMAIN arg_mapper
            THEN [heap |-> h, raised |-> TRUE]
            ELSE Substitute([h EXCEPT ![body[i]] =
                                [p \in DOMAIN instruction |->
                                    IF Formal(p) THEN arg_mapper[instruction[p]] ELSE instruction[p]]],
                            body, i + 1, required_args, arg_mapper)

\* p_function: a call name(arg_list); of a macro the table does not hold
\* functions[func_name] raises KeyError; p[0] = [] of the branch for a wrong
\* number of arguments is overwritten by p[0] = body at the end
Function(name, actuals) ==
    /\ Reduce
    /\ stack # <<>>
    /\ LET func_name == Variable(name)
           arg_list == ArgList(actuals)
       IN IF ~functions[func_name].defined
          THEN /\ perr' = "KeyError"
               /\ UNCHANGED <<heap, stack, calls>>
          ELSE LET copy == DeepCopy(heap, functions[func_name].body)
                   required_args == functions[func_name].arg_list
                   done == Substitute(copy.heap, copy.body, 1, required_args,
                                      ArgMapper(required_args, arg_list))
                   call == [func_name |-> func_name, arg_list |-> arg_list,
                            required_args |-> required_args,
                            stored |-> Contents(heap, functions[func_name].body),
                            stored_after |-> Contents(IF done.raised THEN heap ELSE done.heap,
                                                      functions[func_name].body),
                            raised |-> done.raised,
                            body |-> IF done.raised THEN <<>> ELSE copy.body]
               IN /\ calls' = Append(calls, call)
                  /\ IF done.raised
                     THEN /\ perr' = "KeyError"
                          /\ UNCHANGED <<heap, stack>>
                     ELSE /\ heap' = done.heap
                          /\ stack' = BodyPlus(stack, copy.body)
                          /\ UNCHANGED perr
    /\ UNCHANGED <<variables, functions, parsed, loops>>
    /\ UNCHANGED <<defs, refs, mains, skipped, returned>>
    /\ UNCHANGED <<dvars, avars, gvars, brigade, pvars, svars, xvars>>

\* for i in range(iterator): return_list += body
RECURSIVE Extend(_, _, _)
Extend(return_list, body, rounds) ==
    IF rounds <= 0 THEN return_list ELSE Extend(return_list \o body, body, rounds - 1)

\* the return_list of p_for_loop; the variant goes round once more
Repeat_once_more(body, iterator) == Extend(<<>>, body, iterator + 1)

Repeat(body, iterator) == Extend(<<>>, body, iterator)

\* } of a FOR: p_for_loop, then p_body
CloseFor ==
    /\ Reduce
    /\ stack # <<>>
    /\ stack[Len(stack)].kind = "FOR"
    /\ stack[Len(stack)].items > 0
    /\ LET top == stack[Len(stack)]
           return_list == Repeat(top.body, top.iterator)
       IN /\ stack' = BodyPlus(SubSeq(stack, 1, Len(stack) - 1), return_list)
          /\ loops' = Append(loops, [iterator |-> top.iterator, body |-> top.body,
                                     return_list |-> return_list, base |-> top.base,
                                     defined |-> {w \in DOMAIN variables : variables[w] # Unset}])
    /\ UNCHANGED <<variables, functions, heap, parsed, perr, calls>>
    /\ UNCHANGED <<defs, refs, mains, skipped, returned>>
    /\ UNCHANGED <<dvars, avars, gvars, brigade, pvars, svars, xvars>>

\* } of a DEF: p_assign_func, then p_script (the value of the script
\* becomes [] as after p_assign_var)
CloseDef ==
    /\ Reduce
    /\ stack # <<>>
    /\ stack[Len(stack)].kind = "DEF"
    /\ stack[Len(stack)].items > 0
    /\ LET top == stack[Len(stack)]
       IN functions' = [functions EXCEPT ![top.func_name] =
                            [defined |-> TRUE, arg_list |-> top.arg_list, body |-> top.body]]
    /\ stack' = <<>>
    /\ parsed' = <<>>
    /\ UNCHANGED <<variables, heap, perr, calls, loops>>
    /\ UNCHANGED <<defs, refs, mains, skipped, returned>>
    /\ UNCHANGED <<dvars, avars, gvars, brigade, pvars, svars, xvars>>

\* } of MAIN: p_main, then p_script (the value of the script so far plus
\* the body of main)
CloseMain ==
    /\ Reduce
    /\ stack # <<>>
    /\ stack[Len(stack)].kind = "MAIN"
    /\ stack[Len(stack)].items > 0
    /\ parsed' = parsed \o stack[Len(stack)].body
    /\ stack' = <<>>
    /\ mains' = [count |-> mains.count + 1, body |-> mains.body \o stack[Len(stack)].body]
    /\ UNCHANGED <<variables, functions, heap, perr, calls, loops>>
    /\ UNCHANGED <<defs, refs, skipped, returned>>
    /\ UNCHANGED <<dvars, avars, gvars, brigade, pvars, svars, xvars>>

\* the lexer meets a character no token starts with: t_error logs it and
\* skips it, and the tokens around it are parsed as if it were not there
TError ==
    /\ Reduce
    /\ skipped' = TRUE
    /\ UNCHANGED <<variables, functions, heap, stack, parsed, perr, calls, loops>>
    /\ UNCHANGED <<defs, refs, mains, returned>>
    /\ UNCHANGED <<dvars, avars, gvars, brigade, pvars, svars, xvars>>

\* the parser meets a token the grammar does not allow where it stands (or
\* the end of the script inside a block, or an empty script): p_error
\* raises, and the exception leaves parser.parse and Chempiler.__init__
PError ==
    /\ Reduce
    /\ perr' = "Exception"
    /\ UNCHANGED <<variables, functions, heap, stack, parsed, calls, loops>>
    /\ UNCHANGED <<defs, refs, mains, skipped, returned>>
    /\ UNCHANGED <<dvars, avars, gvars, brigade, pvars, svars, xvars>>

\* the script has had a DEF or a MAIN at its top level
TopLevelItem ==
    \/ mains.count > 0
    \/ \E f \in DOMAIN functions : functions[f].defined
    \/ \E w \in DOMAIN variables : variables[w] # Unset

\* the end of the script after a top-level item: parser.parse returns the
\* value of the script, which Chempiler.__init__ keeps as command_queue
ParseReturns ==
    /\ perr = "-"
    /\ ~returned
    /\ stack = <<>>
    /\ TopLevelItem
    /\ returned' = TRUE
    /\ UNCHANGED <<variables, functions, heap, stack, parsed, perr, calls, loops, nparse>>
    /\ UNCHANGED <<defs, refs, mains, skipped>>
    /\ UNCHANGED <<dvars, avars, gvars, brigade, pvars, svars, xvars>>

InitCompile ==
    /\ DispatchAtRest
    /\ ActorAtRest
    /\ GraphAtRest
    /\ brigade = NoBrigade
    /\ DevicesAtRest
    /\ CompilerAtRest
    /\ SnapshotAtRest
    /\ wait = NoWait
    /\ conn = NoCall
    /\ rig = NoRig
    /\ found = NoSetup
    /\ race = NoRace

NextCompile ==
    \/ \E w \in AssignedWords, v \in NUMBERS : AssignVar(w, v)
    \/ OpenMain
    \/ \E name \in FuncNames, formals \in FormalLists : OpenDef(name, formals)
    \/ \E n \in ForCounts : OpenFor(n)
    \/ \E args \in InstrArgLists : Instruction("S", "OP", args)
    \/ \E name \in FuncNames, actuals \in ActualLists : Function(name, actuals)
    \/ CloseFor
    \/ CloseDef
    \/ CloseMain
    \/ TError
    \/ PError
    \/ ParseReturns

SpecCompile == InitCompile /\ [][NextCompile]_vars

\* the instruction a call makes of an instruction of the stored body: each
\* formal parameter replaced by the actual argument at its position
Actualised(instruction, call) ==
    [p \in DOMAIN instruction |->
        IF \E j \in DOMAIN call.required_args : call.required_args[j] = instruction[p]
        THEN call.arg_list[CHOOSE j \in DOMAIN call.required_args : call.required_args[j] = instruction[p]]
        ELSE instruction[p]]

\* the calls that were given as many arguments as the macro has parameters
Matching(call) == Len(call.arg_list) = Len(call.required_args)

\* C18: the calls of a macro compile to independent instruction records:
\* each record of a call carries the arguments of that call in the place of
\* the formal parameters, no record belongs to two calls, and the stored
\* body of the macro is after the call what it was before it.
C18_CallsIndependent ==
    \A i \in DOMAIN calls :
        Matching(calls[i]) =>
            /\ ~calls[i].raised
            /\ Contents(heap, calls[i].body) =
                   [k \in DOMAIN calls[i].stored |-> Actualised(calls[i].stored[k], calls[i])]
            /\ calls[i].stored_after = calls[i].stored
            /\ \A j \in DOMAIN calls :
                   j # i => Range(calls[i].body) \cap Range(calls[j].body) = {}

\* the parts of C18 that do hold: a call leaves the stored body alone, and
\* two calls share no record
StoredBodyKept ==
    \A i \in DOMAIN calls :
        /\ calls[i].stored_after = calls[i].stored
        /\ \A j \in DOMAIN calls :
               j # i => Range(calls[i].body) \cap Range(calls[j].body) = {}

\* the records that macro calls have produced
Expanded == UNION {Range(calls[i].body) : i \in DOMAIN calls}

\* C19: FOR(n){ body } compiles to the instruction list of the body n times
\* in a row, in order, for every n >= 0; the body is by then a flat list of
\* instruction records, and a word written in the loop that names a
\* variable has been replaced by the value of the variable.
C19_LoopRepeats ==
    \A i \in DOMAIN loops :
        LET l == loops[i] IN
        /\ Len(l.return_list) = l.iterator * Len(l.body)
        /\ \A k \in DOMAIN l.return_list :
               heap[l.return_list[k]] = heap[l.body[((k - 1) % Len(l.body)) + 1]]
        /\ \A k \in DOMAIN l.body :
               /\ heap[l.body[k]][1] \in {"S", "P"}
               /\ heap[l.body[k]][2] = "OP"
               /\ (l.body[k] > l.base /\ l.body[k] \notin Expanded) =>
                      \A p \in 3..Len(heap[l.body[k]]) : heap[l.body[k]][p] \notin l.defined \cap WORDS

\* a loop of two rounds around a loop of two rounds around an instruction
\* that names a variable: four records, the variable replaced
C19_Witness ==
    \E i \in DOMAIN loops, j \in DOMAIN loops :
        /\ loops[j].iterator = 2
        /\ loops[i].iterator = 2
        /\ loops[i].body = loops[j].return_list
        /\ Len(loops[i].return_list) = 4
        /\ "x" \in loops[i].defined
        /\ loops[i].return_list[4] \notin Expanded
        /\ heap[loops[i].return_list[4]] = <<"S", "OP", "5", "y">>

\* C40: the records a call with the right number of arguments expands to
\* are the records of the stored body, for-loops repeated, with every formal
\* parameter replaced once by the actual argument at its position, also
\* when an actual argument is spelled like another formal parameter.
C40_SubstitutionSimultaneous ==
    \A i \in DOMAIN calls :
        (Matching(calls[i]) /\ ~calls[i].raised) =>
            \A k \in DOMAIN calls[i].body :
                heap[calls[i].body[k]] = Actualised(calls[i].stored[k], calls[i])

\* the heap after record r has had its first argument changed
ArgumentChanged(r) == [heap EXCEPT ![r] = [@ EXCEPT ![3] = "changed"]]

\* the place in the body of a loop that the k-th record of its return_list
\* repeats, and the iteration the k-th record belongs to
Iteration(l, k) == ((k - 1) \div Len(l.body)) + 1

\* C35: in the list a for-loop around a macro call compiles to, changing an
\* argument of a record of one iteration leaves the records of every other
\* iteration as they were.
C35_IterationsIndependent ==
    \A i \in DOMAIN loops :
        LET l == loops[i] IN
        (Range(l.body) \cap Expanded # {} /\ l.iterator >= 2) =>
            \A k, m \in DOMAIN l.return_list :
                (/\ l.return_list[k] \in Expanded
                 /\ Len(heap[l.return_list[k]]) >= 3
                 /\ Iteration(l, k) # Iteration(l, m)) =>
                    ArgumentChanged(l.return_list[k])[l.return_list[m]] = heap[l.return_list[m]]

\* C20: a call with fewer or more arguments than the macro has parameters
\* expands to nothing and raises no error.
C20_MismatchExpandsToNothing ==
    \A i \in DOMAIN calls :
        ~Matching(calls[i]) => (~calls[i].raised /\ calls[i].body = <<>>)

\* C21: a reference to a name the script has defined gets the value of the
\* latest definition of that name before the reference: the second value
\* after a second definition, the first value between the two.
C21_LatestDefinitionWins ==
    \A r \in refs : r.latest # Unset => r.got = r.latest

\* C22: what the compiler returns is the expansion of the body of main in
\* order: the definitions of variables and macros add no instruction and
\* take none away, before main or after it.
C22_OutputIsMain ==
    returned => Contents(heap, parsed) = Contents(heap, mains.body)

\* C23: of a malformed script (a character the lexer does not know, a token
\* the grammar does not allow) the compilation fails: the dispatcher gets no
\* instruction list.
C23_MalformedNeverRuns ==
    (skipped \/ perr # "-") => ~returned

\* C24: a graph rebuilt from the snapshot gives every node of the snapshot
\* (every node but the pumps and the valves) the current volume it had when
\* the snapshot was written, 0 included.
C24_SnapshotRoundTrip ==
    rebuilt.done => \A n \in Vessels : rebuilt.node[n] = rebuilt.snapshot[n]

\* C25: an instruction with an opcode of the pump, stirrer, rotavap, vacuum
\* or chiller family, SET_COOLING_POWER among them, reaches the operation of
\* its executor: execute() does not take it for an invalid command, and in
\* Parallel mode a thread runs the operation.
C25_OpcodesRouted ==
    \A i \in Range(dispatched) :
        (script[i].opcode \in DOMAIN Branches /\ script[i].path /\ script[i].lookup) =>
            /\ Operation(script[i].opcode) = Branches[script[i].opcode]
            /\ script[i].mode = PARALLEL => task[i] # "unborn"

\* every opcode that has a branch in a process_* function, and the opcodes
\* of the other families
FormOpcodes == DOMAIN Branches \cup ScriptOpcodes

FormBodies ==
    {r \in [mode : Modes, opcode : FormOpcodes, path : BOOLEAN, lookup : BOOLEAN] :
        /\ r.opcode # "MOVE" => (r.path /\ r.lookup)
        /\ r.path => r.lookup}

\* the dispatcher before a script of two instructions, each with any opcode
\* in either form
InitForms ==
    /\ ActorAtRest
    /\ GraphAtRest
    /\ brigade = NoBrigade
    /\ DevicesAtRest
    /\ CompilerAtRest
    /\ SnapshotAtRest
    /\ wait = NoWait
    /\ conn = NoCall
    /\ rig = NoRig
    /\ found = NoSetup
    /\ race = NoRace
    /\ script \in {Numbered(s) : s \in [1..2 -> FormBodies]}
    /\ command_queue = script
    /\ cmd = NoCmd
    /\ pc = "Ready"
    /\ join_idx = 1
    /\ thread_pool = <<>>
    /\ task = [i \in 1..Len(script) |-> "unborn"]
    /\ dispatched = <<>>

SpecForms == InitForms /\ [][NextDispatch]_vars

\* C37: the thread a Parallel instruction starts runs the executor operation
\* that the Sequential form of the instruction calls.
C37_SameOperationInBothForms ==
    \A i \in Range(dispatched) :
        (script[i].opcode \in DOMAIN Branches /\ script[i].mode = PARALLEL /\ task[i] # "unborn") =>
            ThreadTarget[script[i].opcode] = Branches[script[i].opcode]

(***************************************************************************)
(* wait_for_temp of the stirrer, rotavap and chiller executors.            *)
(* Temperatures are counted in steps of 0.5 degrees.  A poll is a read of  *)
(* the process value of the device, which answers what it likes.           *)
(***************************************************************************)

\* the temperatures a device reports, 0..MaxTemp
MaxTemp == 4

\* the polls of one call
MaxPolls == 4

\* constants.py and RotavapExecutioner.__init__: 0.5 degrees
COOLING_THRESHOLD == 1

TEMP_WINDOW == 1

Executors == {"stirrer", "rotavap", "chiller"}

Temps == 0..MaxTemp

Abs(x) == IF x < 0 THEN 0 - x ELSE x

\* the place wait_for_temp goes to after a poll that read pv
\* at "if": the first comparison; at "elif": the second; at "below" and
\* "above": the condition of the while loop of that branch; at "loop": the
\* body of the while True of the rotavap
AfterPoll(w, pv) ==
    CASE w.executor = "stirrer" /\ w.pc = "if" -> IF pv < w.setpoint THEN "below" ELSE "elif"
      [] w.executor = "stirrer" /\ w.pc = "elif" -> IF pv > w.setpoint THEN "above" ELSE "returned"
      [] w.executor = "stirrer" /\ w.pc = "below" -> IF pv < w.setpoint THEN "below" ELSE "returned"
      [] w.executor = "stirrer" /\ w.pc = "above" -> IF pv > w.setpoint THEN "above" ELSE "returned"
      [] w.executor = "chiller" /\ w.pc = "if" -> IF pv < w.setpoint THEN "below" ELSE "elif"
      [] w.executor = "chiller" /\ w.pc = "elif" -> IF pv > w.setpoint THEN "above" ELSE "returned"
      [] w.executor = "chiller" /\ w.pc \in {"below", "above"} ->
              IF Abs(pv - w.setpoint) > COOLING_THRESHOLD THEN w.pc ELSE "returned"
      [] w.executor = "rotavap" ->
              IF pv < w.setpoint - TEMP_WINDOW \/ pv > w.setpoint + TEMP_WINDOW THEN "loop" ELSE "returned"

InitWait ==
    /\ DispatchAtRest
    /\ ActorAtRest
    /\ GraphAtRest
    /\ brigade = NoBrigade
    /\ DevicesAtRest
    /\ CompilerAtRest
    /\ SnapshotAtRest
    /\ \E e \in Executors, sim \in BOOLEAN, sp \in Temps :
          wait = [executor |-> e, simulation |-> sim, setpoint |-> sp, pv |-> 0, pc |-> "called", polls |-> 0]
    /\ conn = NoCall
    /\ rig = NoRig
    /\ found = NoSetup
    /\ race = NoRace

\* if self.simulation: the function logs and returns
Simulated ==
    /\ wait.pc = "called"
    /\ wait.simulation
    /\ wait' = [wait EXCEPT !.pc = "returned"]
    /\ UNCHANGED <<dvars, avars, gvars, brigade, pvars, cvars, svars, conn, rig, found, race>>

\* else: the set point is read; the stirrer and the chiller go to their
\* first comparison, the rotavap into its loop
ReadSetpoint ==
    /\ wait.pc = "called"
    /\ ~wait.simulation
    /\ wait' = [wait EXCEPT !.pc = IF wait.executor = "rotavap" THEN "loop" ELSE "if"]
    /\ UNCHANGED <<dvars, avars, gvars, brigade, pvars, cvars, svars, conn, rig, found, race>>

\* a read of the process value where the function stands (after the sleep
\* of 5 s, if it stands in a loop), and the comparison that follows
Poll(pv) ==
    /\ wait.pc \in {"if", "elif", "below", "above", "loop"}
    /\ wait.polls < MaxPolls
    /\ wait' = [wait EXCEPT !.pv = pv, !.polls = wait.polls + 1, !.pc = AfterPoll(wait, pv)]
    /\ UNCHANGED <<dvars, avars, gvars, brigade, pvars, cvars, svars, conn, rig, found, race>>

\* the read of the rotavap raises: the exception is logged and the loop
\* goes round again, without a sleep
PollFails ==
    /\ wait.executor = "rotavap"
    /\ wait.pc = "loop"
    /\ wait.polls < MaxPolls
    /\ wait' = [wait EXCEPT !.polls = wait.polls + 1]
    /\ UNCHANGED <<dvars, avars, gvars, brigade, pvars, cvars, svars, conn, rig, found, race>>

NextWait ==
    \/ Simulated
    \/ ReadSetpoint
    \/ \E pv \in Temps : Poll(pv)
    \/ PollFails

SpecWait == InitWait /\ [][NextWait]_vars

\* C26: outside simulation mode wait_for_temp of the stirrer, the rotavap
\* and the chiller returns only when the value polled last is within the
\* tolerance of the setpoint, from whichever side the readings came.
C26_ReturnsWithinTolerance ==
    (wait.pc = "returned" /\ ~wait.simulation) => Abs(wait.pv - wait.setpoint) <= TEMP_WINDOW

(***************************************************************************)
(* Commands that check their argument: ChemputerPump.hard_home,            *)
(* ChemputerDevice.assign_ip_address, JULABOCF41.set_cooling_power and     *)
(* the stir_rate_sp setter of the Heidolph RZR 2052.  An address is the    *)
(* list of its fields between the dots; a field that is not a run of       *)
(* digits is written -1.                                                   *)
(***************************************************************************)

\* the calls made on one device
MaxCalls == 2

\* hard_home: the slowest speed sent, in microlitres per minute
HARD_HOME_MIN_SPEED == 35000

\* set_cooling_power: the upper limit, in per cent
COOLING_POWER_MAX == 100

\* stir_rate_sp of the Heidolph RZR 2052: the limits, in rpm
STIR_RATE_MIN == 30

STIR_RATE_MAX == 1000

\* the arguments of the calls
Speeds == {0, 34, 35, 50}

Powers == {-1, 0, 100, 101}

Rates == {29, 30, 1000, 1001}

Fields == {-1, 7, 300}

Addresses == UNION { [1..n -> Fields] : n \in 3..4 }

\* the number of characters of a field that is a run of digits
Digits(f) == IF f < 10 THEN 1 ELSE IF f < 100 THEN 2 ELSE IF f < 1000 THEN 3 ELSE 4

\* re.fullmatch(ip_pattern, ip_address): four runs of one to three digits
\* with dots between them
FullMatch(ip_address) ==
    /\ Len(ip_address) = 4
    /\ \A k \in DOMAIN ip_address : ip_address[k] >= 0 /\ Digits(ip_address[k]) <= 3

\* an address of the Internet Protocol: four numbers of 0..255
WellFormed(ip_address) ==
    /\ Len(ip_address) = 4
    /\ \A k \in DOMAIN ip_address : ip_address[k] >= 0 /\ ip_address[k] <= 255

\* the call fn(arg) has been made: what it wrote and how it ended
Called(fn, arg, written, raised) ==
    /\ conn.calls < MaxCalls
    /\ conn' = [fn |-> fn, arg |-> arg, written |-> written, raised |-> raised,
                calls |-> conn.calls + 1]
    /\ UNCHANGED <<dvars, avars, gvars, brigade, pvars, cvars, svars, wait, rig, found, race>>

\* ChemputerPump.hard_home: a speed that is too low is logged
hard_home(speed_in_milliliters_per_min) ==
    LET speed_in_microliters_per_min == speed_in_milliliters_per_min * 1000
    IN  IF speed_in_microliters_per_min >= HARD_HOME_MIN_SPEED
        THEN Called("hard_home", <<speed_in_milliliters_per_min>>,
                    <<<<"HARD_HOME", speed_in_microliters_per_min>>>>, "-")
        ELSE Called("hard_home", <<speed_in_milliliters_per_min>>, <<>>, "-")

\* ChemputerDevice.assign_ip_address on a pump or a valve
assign_ip_address(ip_address) ==
    IF ~FullMatch(ip_address)
    THEN Called("assign_ip_address", ip_address, <<>>, "ValueError")
    ELSE Called("assign_ip_address", ip_address, <<<<"WRITE_NETWORK_CONFIG">> \o ip_address>>, "-")

\* JULABOCF41.set_cooling_power
set_cooling_power(cooling_power) ==
    IF cooling_power < 0 \/ cooling_power > COOLING_POWER_MAX
    THEN Called("set_cooling_power", <<cooling_power>>, <<>>, "ValueError")
    ELSE Called("set_cooling_power", <<cooling_power>>, <<<<"OUT_HIL_00", 0 - cooling_power>>>>, "-")

\* the stir_rate_sp setter of the Heidolph RZR 2052
stir_rate_sp(rpm) ==
    IF STIR_RATE_MIN <= rpm /\ rpm <= STIR_RATE_MAX
    THEN Called("stir_rate_sp", <<rpm>>, <<<<"set_rpm", rpm>>>>, "-")
    ELSE Called("stir_rate_sp", <<rpm>>, <<>>, "ValueError")

InitArgs ==
    /\ DispatchAtRest
    /\ ActorAtRest
    /\ GraphAtRest
    /\ brigade = NoBrigade
    /\ DevicesAtRest
    /\ CompilerAtRest
    /\ SnapshotAtRest
    /\ wait = NoWait
    /\ conn = NoCall
    /\ rig = NoRig
    /\ found = NoSetup
    /\ race = NoRace

NextArgs ==
    \/ \E speed \in Speeds : hard_home(speed)
    \/ \E ip_address \in Addresses : assign_ip_address(ip_address)
    \/ \E cooling_power \in Powers : set_cooling_power(cooling_power)
    \/ \E rpm \in Rates : stir_rate_sp(rpm)

SpecArgs == InitArgs /\ [][NextArgs]_vars

\* the argument of the call made last is out of range or malformed
BadArgument ==
    \/ conn.fn = "hard_home" /\ conn.arg[1] * 1000 < HARD_HOME_MIN_SPEED
    \/ conn.fn = "assign_ip_address" /\ ~WellFormed(conn.arg)
    \/ conn.fn = "set_cooling_power" /\ (conn.arg[1] < 0 \/ conn.arg[1] > COOLING_POWER_MAX)
    \/ conn.fn = "stir_rate_sp" /\ (conn.arg[1] < STIR_RATE_MIN \/ conn.arg[1] > STIR_RATE_MAX)

\* C32: a command called with an argument that is out of range or malformed
\* (a hard-home speed below the minimum, a malformed IP address, a stir rate
\* or a cooling power outside the limits) writes nothing to the connection of
\* the device.
C32_RejectedBeforeIO == BadArgument => conn.written = <<>>

\* ---------------------------------------------------------------------------
\* Setup.setup_special_devices and the path of a MOVE
\* ---------------------------------------------------------------------------

\* the nodes of the rigs given to setup_special_devices, in the order of
\* graph.nodes()
RigOrder == <<"flask_a", "flask_b", "valve_1", "valve_2", "flask_separator_top", "flask_separator_bottom">>

RigNodes == Range(RigOrder)

\* the edges every such rig has: each flask on its valve in both directions,
\* the backbone between the valves, the inlet of the separator, the separator
\* over its bottom, the bottom on its valve
BaseEdges ==
    {<<"flask_a", "valve_1">>, <<"valve_1", "flask_a">>,
     <<"flask_b", "valve_2">>, <<"valve_2", "flask_b">>,
     <<"valve_1", "valve_2">>, <<"valve_2", "valve_1">>,
     <<"valve_1", "flask_separator_top">>,
     <<"flask_separator_top", "flask_separator_bottom">>,
     <<"flask_separator_bottom", "valve_2">>, <<"valve_2", "flask_separator_bottom">>}

\* edges a topology file may have as well: the bottom drawn back to its
\* separator, a second inlet of the separator, an outlet of the separator to
\* its valve
OptionalEdges ==
    {<<"flask_separator_bottom", "flask_separator_top">>,
     <<"valve_2", "flask_separator_top">>,
     <<"flask_separator_top", "valve_1">>}

\* graph.successors(n), graph.predecessors(n)
Successors(edges, n) == {m \in RigNodes : <<n, m>> \in edges}

Predecessors(edges, n) == {m \in RigNodes : <<m, n>> \in edges}

\* setup_special_devices: the body of the loop for one node
SetupSpecialDevice(r, each_node) ==
    IF Class[each_node] \in SPECIAL_DEVICES /\ Cardinality(Successors(r.edges, each_node)) = 1
    THEN LET successor == CHOOSE m \in RigNodes : m \in Successors(r.edges, each_node)
         IN  [r EXCEPT !.associated_flask[each_node] = successor,
                       !.parent_flask[successor] = each_node,
                       !.edges = @ \ {<<each_node, successor>>}]
    ELSE r

\* setup_special_devices: the loop over graph.nodes() from the i-th node on
RECURSIVE SetupSpecialDevices(_, _)
SetupSpecialDevices(r, i) ==
    IF i > Len(RigOrder) THEN r
    ELSE SetupSpecialDevices(SetupSpecialDevice(r, RigOrder[i]), i + 1)

\* nx.Graph(graph): the edges without their direction
Undirected(edges) == edges \cup {<<e[2], e[1]>> : e \in edges}

\* the simple paths of nx.Graph(graph) from source to dest
SimplePaths(edges, source, dest) ==
    {p \in UNION {[1..n -> RigNodes] : n \in 2..Cardinality(RigNodes)} :
        /\ p[1] = source
        /\ p[Len(p)] = dest
        /\ \A i, j \in DOMAIN p : i # j => p[i] # p[j]
        /\ \A i \in 1..(Len(p) - 1) : <<p[i], p[i + 1]>> \in Undirected(edges)}

\* nx.shortest_path(nx.Graph(graph), source, dest): a path of the least
\* length; which one of several the search returns follows the order of the
\* nodes in the topology file
ShortestPaths(edges, source, dest) ==
    LET paths == SimplePaths(edges, source, dest)
    IN  {p \in paths : \A q \in paths : Len(p) <= Len(q)}

\* the vessels a MOVE names on these rigs
RigVessels == RigNodes \ ValveNodes

InitSetup ==
    /\ DispatchAtRest
    /\ ActorAtRest
    /\ GraphAtRest
    /\ brigade = NoBrigade
    /\ DevicesAtRest
    /\ CompilerAtRest
    /\ SnapshotAtRest
    /\ wait = NoWait
    /\ conn = NoCall
    /\ found = NoSetup
    /\ race = NoRace
    /\ \E more \in SUBSET OptionalEdges :
            rig = [edges |-> BaseEdges \cup more,
                   associated_flask |-> [n \in RigNodes |-> None],
                   parent_flask |-> [n \in RigNodes |-> None],
                   pc |-> "loaded", path |-> <<>>]

\* Setup.setup_special_devices
setup_special_devices ==
    /\ rig.pc = "loaded"
    /\ rig' = [SetupSpecialDevices(rig, 1) EXCEPT !.pc = "set_up"]
    /\ UNCHANGED <<dvars, avars, gvars, brigade, pvars, cvars, svars, wait, conn, found, race>>

\* process_pump_cmd, MOVE of a vessel to itself: its first predecessor is
\* taken for its valve
MovePathSame(source) ==
    /\ rig.pc \in {"set_up", "moved"}
    /\ \E associated_valve \in Predecessors(rig.edges, source) :
            rig' = [rig EXCEPT !.pc = "moved", !.path = <<source, associated_valve, source>>]
    /\ UNCHANGED <<dvars, avars, gvars, brigade, pvars, cvars, svars, wait, conn, found, race>>

\* process_pump_cmd, MOVE between two vessels: the shortest path of the
\* undirected copy of the graph
MovePath(source, dest) ==
    /\ rig.pc \in {"set_up", "moved"}
    /\ source # dest
    /\ \E path \in ShortestPaths(rig.edges, source, dest) :
            rig' = [rig EXCEPT !.pc = "moved", !.path = path]
    /\ UNCHANGED <<dvars, avars, gvars, brigade, pvars, cvars, svars, wait, conn, found, race>>

NextSetup ==
    \/ setup_special_devices
    \/ \E source \in RigVessels : MovePathSame(source)
    \/ \E source, dest \in RigVessels : MovePath(source, dest)

SpecSetup == InitSetup /\ [][NextSetup]_vars

\* the nodes strictly inside a path
Interior(path) == {path[i] : i \in 2..(Len(path) - 1)}

\* the special devices the setup has given a flask
Associated == {n \in RigNodes : Class[n] \in SPECIAL_DEVICES /\ rig.associated_flask[n] # None}

\* C33: once the setup is done, every special device that had exactly one
\* successor and its flask name each other, no edge of the graph joins the
\* two in either direction, and the path computed for a MOVE has no such
\* device strictly inside it.
C33_SpecialDevicesOffThePath ==
    rig.pc \in {"set_up", "moved"} =>
        \A n \in Associated :
            /\ rig.parent_flask[rig.associated_flask[n]] = n
            /\ <<n, rig.associated_flask[n]>> \notin Undirected(rig.edges)
            /\ n \notin Interior(rig.path)

\* ---------------------------------------------------------------------------
\* Setup.setup_serial_devices
\* ---------------------------------------------------------------------------

\* the nodes of the topology that may declare a serial device, in the order
\* of graph.nodes()
SerialNodes == <<"flask_a", "flask_b">>

\* device types of the found_devices dict: two with a simulated class, one
\* that is None in simulation
SerialTypes == {"IKA_RV10", "CVC3000", "conductivity_sensor"}

SerialPorts == {"COM1", "COM2"}

\* serial_device_1_type and serial_device_1_port of a node that declares none
Undeclared == [type |-> "None", port |-> "None"]

Declarations == {Undeclared} \cup [type : SerialTypes, port : SerialPorts]

\* the attribute of a node no device has been stored in
Unset_object == [type |-> "-", port |-> "-", id |-> 0]

\* device_object = None
None_object == [type |-> "None", port |-> "None", id |-> 0]

Get_nothing(found_devices, device_type, device_port) == None_object

\* found_devices[device_type].get(device_port): the object stored under the
\* type and the port, None when there is none
Get(found_devices, device_type, device_port) ==
    LET stored == {e \in found_devices : e.type = device_type /\ e.port = device_port}
    IN  IF stored = {} THEN None_object ELSE (CHOOSE e \in stored : TRUE).object

\* found_devices[device_type][device_port] = device_object
Put(found_devices, device_type, device_port, device_object) ==
    {e \in found_devices : ~(e.type = device_type /\ e.port = device_port)}
        \cup {[type |-> device_type, port |-> device_port, object |-> device_object]}

\* the classes that are None in simulation
Unsimulated == {"conductivity_sensor"}

InitSerial ==
    /\ DispatchAtRest
    /\ ActorAtRest
    /\ GraphAtRest
    /\ brigade = NoBrigade
    /\ DevicesAtRest
    /\ CompilerAtRest
    /\ SnapshotAtRest
    /\ wait = NoWait
    /\ conn = NoCall
    /\ rig = NoRig
    /\ race = NoRace
    /\ \E declared \in [DOMAIN SerialNodes -> Declarations], simulation \in BOOLEAN :
            found = [declared |-> declared, found_devices |-> {},
                     node |-> [i \in DOMAIN SerialNodes |-> Unset_object],
                     objects |-> 0, opened |-> <<>>, simulation |-> simulation, pc |-> 1]

\* the node the loop of setup_serial_devices has come to
EachNode == found.declared[found.pc]

\* the body of the loop for a node without a declaration: the while loop
\* breaks at once
NoDevice ==
    /\ found.pc \in DOMAIN SerialNodes
    /\ EachNode = Undeclared
    /\ found' = [found EXCEPT !.pc = @ + 1]
    /\ UNCHANGED <<dvars, avars, gvars, brigade, pvars, cvars, svars, wait, conn, rig, race>>

\* the branch `if found_devices[type].get(device_port)`: the object of an
\* earlier node is stored in this node
Reuse ==
    /\ found.pc \in DOMAIN SerialNodes
    /\ EachNode # Undeclared
    /\ Get(found.found_devices, EachNode.type, EachNode.port) # None_object
    /\ found' = [found EXCEPT !.node[found.pc] = Get(found.found_devices, EachNode.type, EachNode.port),
                               !.pc = @ + 1]
    /\ UNCHANGED <<dvars, avars, gvars, brigade, pvars, cvars, svars, wait, conn, rig, race>>

\* the branch `elif self.simulation`: a simulated object that opens no
\* connection, or None
Simulate ==
    /\ found.pc \in DOMAIN SerialNodes
    /\ EachNode # Undeclared
    /\ Get(found.found_devices, EachNode.type, EachNode.port) = None_object
    /\ found.simulation
    /\ LET device_object ==
                IF EachNode.type \in Unsimulated THEN None_object
                ELSE [type |-> EachNode.type, port |-> EachNode.port, id |-> found.objects + 1]
       IN  found' = [found EXCEPT
                        !.found_devices = Put(@, EachNode.type, EachNode.port, device_object),
                        !.objects = IF device_object = None_object THEN @ ELSE @ + 1,
                        !.node[found.pc] = device_object,
                        !.pc = @ + 1]
    /\ UNCHANGED <<dvars, avars, gvars, brigade, pvars, cvars, svars, wait, conn, rig, race>>

\* the else branch: the device object is made and opens its port
Instantiate ==
    /\ found.pc \in DOMAIN SerialNodes
    /\ EachNode # Undeclared
    /\ Get(found.found_devices, EachNode.type, EachNode.port) = None_object
    /\ ~found.simulation
    /\ LET device_object == [type |-> EachNode.type, port |-> EachNode.port, id |-> found.objects + 1]
       IN  found' = [found EXCEPT
                        !.found_devices = Put(@, EachNode.type, EachNode.port, device_object),
                        !.objects = @ + 1,
                        !.opened = Append(@, device_object),
                        !.node[found.pc] = device_object,
                        !.pc = @ + 1]
    /\ UNCHANGED <<dvars, avars, gvars, brigade, pvars, cvars, svars, wait, conn, rig, race>>

\* the else branch on a port that is open already: the operating system may
\* refuse the second open; the exception ends the program (sys.exit(1)),
\* which leaves the loop for good (pc 0)
InstantiateFails ==
    /\ found.pc \in DOMAIN SerialNodes
    /\ EachNode # Undeclared
    /\ Get(found.found_devices, EachNode.type, EachNode.port) = None_object
    /\ ~found.simulation
    /\ \E k \in DOMAIN found.opened : found.opened[k].port = EachNode.port
    /\ found' = [found EXCEPT !.pc = 0]
    /\ UNCHANGED <<dvars, avars, gvars, brigade, pvars, cvars, svars, wait, conn, rig, race>>

NextSerial ==
    \/ NoDevice
    \/ Reuse
    \/ Simulate
    \/ Instantiate
    \/ InstantiateFails

SpecSerial == InitSerial /\ [][NextSerial]_vars

\* setup_serial_devices has returned the graph
SerialSetUp == found.pc = Len(SerialNodes) + 1

\* the connections opened on a port
Connections(port) == Cardinality({k \in DOMAIN found.opened : found.opened[k].port = port})

\* the connections opened on a port by objects of a type
ConnectionsOf(type, port) ==
    Cardinality({k \in DOMAIN found.opened : found.opened[k].type = type /\ found.opened[k].port = port})

\* the nodes that declare a serial device
Declaring == {i \in DOMAIN SerialNodes : found.declared[i] # Undeclared}

\* C34 as stated: after setup_serial_devices any two nodes that declare a
\* serial device on the same port hold the same object, and outside
\* simulation exactly one connection has been opened on every declared port.
C34_OneActorPerPort ==
    SerialSetUp =>
        \A i, j \in Declaring :
            found.declared[i].port = found.declared[j].port =>
                /\ found.node[i] = found.node[j]
                /\ ~found.simulation => Connections(found.declared[i].port) = 1

\* C34: after setup_serial_devices any two nodes that declare a serial device
\* of the same type on the same port hold the same object, and outside
\* simulation exactly one connection has been opened for that type on that
\* port.
C34_OneActorPerTypeAndPort ==
    SerialSetUp =>
        \A i, j \in Declaring :
            found.declared[i] = found.declared[j] =>
                /\ found.node[i] = found.node[j]
                /\ ~found.simulation => ConnectionsOf(found.declared[i].type, found.declared[i].port) = 1

\* both nodes declare the same device on the same port, outside simulation,
\* and the setup has returned
C34_Witness ==
    /\ SerialSetUp
    /\ ~found.simulation
    /\ found.declared[1] = found.declared[2]
    /\ found.declared[1] # Undeclared
    /\ found.node[2] = found.node[1]
    /\ Len(found.opened) = 1

\* ---------------------------------------------------------------------------
\* two Parallel MOVE threads in PumpExecutioner.update_node_volumes
\* ---------------------------------------------------------------------------

\* the threads of two P MOVE instructions
MoveThreads == {"move_thread_1", "move_thread_2"}

\* the vessels they move between: plain flasks, without a parent flask or an
\* associated flask
RaceVessels == {"flask_a", "flask_b", "waste_1"}

\* the largest volume a thread moves
MaxRaceVolume == 2

\* the volumes moved
RaceVolumes == 1..MaxRaceVolume

\* graph.node[n]["current_volume"] before the two instructions: each flask
\* holds what the two moves together can take out of it
RaceGraph == [n \in RaceVessels |-> MaxRaceVolume * 2]

\* a thread that has not been created
NoThread == [source |-> "-", target |-> "-", volume |-> 0, pc |-> "-", read |-> 0]

InitRace ==
    /\ DispatchAtRest
    /\ ActorAtRest
    /\ GraphAtRest
    /\ brigade = NoBrigade
    /\ DevicesAtRest
    /\ CompilerAtRest
    /\ SnapshotAtRest
    /\ wait = NoWait
    /\ conn = NoCall
    /\ rig = NoRig
    /\ found = NoSetup
    /\ race = [graph |-> RaceGraph, task |-> [t \in MoveThreads |-> NoThread], initial |-> RaceGraph,
               overlap |-> {}]

\* the vessel whose volume a thread has read and not yet written back
Between(r, t) ==
    IF r.task[t].pc = "source_write" THEN {r.task[t].source}
    ELSE IF r.task[t].pc = "target_write" THEN {r.task[t].target}
    ELSE {}

\* the vessels both threads have read and not yet written back
Overlap(r) == Between(r, "move_thread_1") \cap Between(r, "move_thread_2")

\* one step of a thread: the variant writes the target as it writes the source
AfterStep_target_lowered(r, t) ==
    LET k == r.task[t] IN
    CASE k.pc = "started" -> [r EXCEPT !.task[t].pc = "test"]
      [] k.pc = "test" ->
            IF r.graph[k.source] - k.volume < 0
            THEN [r EXCEPT !.task[t].pc = "source_zero"]
            ELSE [r EXCEPT !.task[t].pc = "source_read"]
      [] k.pc = "source_zero" -> [r EXCEPT !.graph[k.source] = 0, !.task[t].pc = "target_read"]
      [] k.pc = "source_read" ->
            [r EXCEPT !.task[t].read = r.graph[k.source], !.task[t].pc = "source_write"]
      [] k.pc = "source_write" ->
            [r EXCEPT !.graph[k.source] = k.read - k.volume, !.task[t].pc = "target_read"]
      [] k.pc = "target_read" ->
            [r EXCEPT !.task[t].read = r.graph[k.target], !.task[t].pc = "target_write"]
      [] k.pc = "target_write" ->
            [r EXCEPT !.graph[k.target] = k.read - k.volume, !.task[t].pc = "done"]

\* one step of a thread that runs PumpExecutioner.move: the transfer itself
\* ("started"), then update_node_volumes, in which `-=` and `+=` on a dict
\* entry are a read, an arithmetic operation and a write, and the
\* interpreter may switch threads between them
AfterStep(r, t) ==
    LET k == r.task[t] IN
    CASE k.pc = "started" -> [r EXCEPT !.task[t].pc = "test"]
      [] k.pc = "test" ->
            IF r.graph[k.source] - k.volume < 0
            THEN [r EXCEPT !.task[t].pc = "source_zero"]
            ELSE [r EXCEPT !.task[t].pc = "source_read"]
      [] k.pc = "source_zero" -> [r EXCEPT !.graph[k.source] = 0, !.task[t].pc = "target_read"]
      [] k.pc = "source_read" ->
            [r EXCEPT !.task[t].read = r.graph[k.source], !.task[t].pc = "source_write"]
      [] k.pc = "source_write" ->
            [r EXCEPT !.graph[k.source] = k.read - k.volume, !.task[t].pc = "target_read"]
      [] k.pc = "target_read" ->
            [r EXCEPT !.task[t].read = r.graph[k.target], !.task[t].pc = "target_write"]
      [] k.pc = "target_write" ->
            [r EXCEPT !.graph[k.target] = k.read + k.volume, !.task[t].pc = "done"]

\* process_pump_cmd, P MOVE: the thread is made and started; the dispatcher
\* goes on to the next instruction
StartMoveThread(t, source, target, volume) ==
    /\ race.task[t].pc = "-"
    /\ t = "move_thread_2" => race.task["move_thread_1"].pc # "-"
    /\ source # target
    /\ race' = [race EXCEPT !.task[t] = [source |-> source, target |-> target, volume |-> volume,
                                          pc |-> "started", read |-> 0]]
    /\ UNCHANGED <<dvars, avars, gvars, brigade, pvars, cvars, svars, wait, conn, rig, found>>

\* the interpreter runs a thread for one step
ThreadStep(t) ==
    /\ race.task[t].pc \notin {"-", "done"}
    /\ LET after == AfterStep(race, t)
       IN  race' = [after EXCEPT !.overlap = @ \cup Overlap(after)]
    /\ UNCHANGED <<dvars, avars, gvars, brigade, pvars, cvars, svars, wait, conn, rig, found>>

NextRace ==
    \/ \E t \in MoveThreads, source, target \in RaceVessels, volume \in RaceVolumes :
            StartMoveThread(t, source, target, volume)
    \/ \E t \in MoveThreads : ThreadStep(t)

SpecRace == InitRace /\ [][NextRace]_vars

\* what a transfer adds to a vessel
Net(k, n) == IF n = k.target THEN k.volume ELSE IF n = k.source THEN 0 - k.volume ELSE 0

\* the vessels both transfers touch
Common == {n \in RaceVessels : \A t \in MoveThreads : n \in {race.task[t].source, race.task[t].target}}

BothDone == \A t \in MoveThreads : race.task[t].pc = "done"

\* C36: nothing keeps two Parallel transfers apart: while one thread is
\* between reading and writing the volume of a vessel, the other thread can
\* take its own step on the same vessel; and after both are done a vessel
\* holds its initial volume plus the net of both transfers or, where the two
\* overlapped on it, plus the net of only one of them.
C36_TransfersNotExcluded ==
    /\ \A t, u \in MoveThreads :
            (t # u /\ Between(race, t) # {} /\ race.task[u].pc \notin {"-", "done"}) => ENABLED ThreadStep(u)
    /\ BothDone =>
            \A n \in RaceVessels :
                \/ race.graph[n] = race.initial[n] + Net(race.task["move_thread_1"], n)
                                                   + Net(race.task["move_thread_2"], n)
                \/ /\ n \in race.overlap
                   /\ \E t \in MoveThreads : race.graph[n] = race.initial[n] + Net(race.task[t], n)

\* both threads have been between reading and writing the volume of a common
\* vessel at once, both are done, and the vessel does not hold its initial
\* volume plus the net of the two transfers
C36_Witness ==
    /\ BothDone
    /\ \E n \in Common :
            /\ n \in race.overlap
            /\ race.graph[n] # race.initial[n] + Net(race.task["move_thread_1"], n)
                                               + Net(race.task["move_thread_2"], n)

====
